---- MODULE Spec2Model ----
(***************************************************************************)
(* Model of the frame loop of VulkanApp (src/src/vulkan_app/app.rs) and of *)
(* the event loop that drives it (src/src/main.rs).                        *)
(*                                                                         *)
(* The CPU side is the single thread of main(): between ticks it handles   *)
(* window events, inside a tick (draw_frame) it is at one of the positions *)
(* of pc.  The GPU side runs asynchronously: it executes the queued        *)
(* submission, the queued presents and the semaphore signal of an acquire  *)
(* at its own pace, constrained only by the semaphores and the fence the   *)
(* code passes to the calls.                                               *)
(*                                                                         *)
(* Image indices are 0-based as in the source; TLA+ sequences are 1-based, *)
(* so Vec element i is sequence element i + 1.                             *)
(***************************************************************************)
EXTENDS Naturals, Integers, Sequences, FiniteSets, TLC

\* ------------------------------------------------------------------ bounds
\* Largest image count the platform reports for a swapchain.
MaxImages == 2
\* Number of ticks (draw_frame calls) explored.
MaxTicks == 3
\* Largest window dimension delivered by a Resized event.
MaxDim == 1
\* The swapchain is recreated at most this many times in a run.
MaxBuilds == 2
\* Longest list of surface formats, and of present modes, that a surface
\* reports.
MaxList == 3
\* Largest number of queue families of a physical device.
MaxFamilies == 2
\* Largest number of physical devices that the instance enumerates.
MaxDevices == 2
\* Largest number of memory types of a physical device.
MaxMemoryTypes == 2
\* mod.rs: the size of the window created at startup.
WIDTH == 800
HEIGHT == 600
\* u32::MAX, the width of current_extent when the surface leaves the extent
\* to the application: the bit pattern 0xFFFFFFFF, written as the signed
\* 32-bit integer with that pattern.
U32_MAX == -1
\* vertex.rs: INDICES.len(), the number of indices of the cube.
INDICES_len == 36

VARIABLES
    \* --- fields of VulkanApp
    swapchain,               \* handle of the current swapchain
    swapchain_images,        \* Vec<vk::Image>
    swapchain_image_views,   \* Vec<vk::ImageView>
    framebuffers,            \* Vec<vk::Framebuffer>
    command_buffers,         \* Vec<vk::CommandBuffer>
    uniform_buffers,         \* Vec<vk::Buffer>
    uniform_buffers_memory,  \* Vec<vk::DeviceMemory>
    descriptor_pool,         \* [handle, allocated]: the pool and the number of sets allocated from it
    descriptor_sets,         \* Vec<vk::DescriptorSet>, each with the buffer it is bound to
    swapchain_extent,        \* vk::Extent2D of the current swapchain
    render_pass,             \* vk::RenderPass
    pipeline_layout,         \* vk::PipelineLayout
    graphics_pipeline,       \* vk::Pipeline
    depth_image,             \* vk::Image
    depth_image_memory,      \* vk::DeviceMemory
    depth_image_view,        \* vk::ImageView
    held,                    \* the fields that new() fills with an object it creates and that Drop destroys
    device_fields,           \* physical_device, graphics_queue, present_queue, queue_family_indices
    static_data,             \* contents of the vertex buffer's and of the index buffer's memory
    \* --- the device's objects
    resource_extent,         \* the extent each extent-dependent resource was created with
    unheld,                  \* live handles (created, not destroyed or released yet) that no field holds
    dangling,                \* handles that a field holds and that are not live
    double_destroyed,        \* handles passed to a destroy or free call while not live
    framebuffer_resized,     \* pub framebuffer_resized: bool
    \* --- GPU objects' state
    in_flight_fence,             \* "signaled" | "unsignaled"
    image_available_semaphore,   \* number of unconsumed signals
    render_finished_semaphore,   \* number of unconsumed signals
    uniform_data,            \* contents of each uniform memory: 0 (never written) or the tick that wrote it
    command_buffer_state,    \* per command buffer: the commands recorded into it
    acquire_pending,         \* acquires whose semaphore signal has not happened yet, in order
    graphics_queue,          \* submissions queued or executing, in order
    present_queue,           \* presents queued on the present queue, in order
    \* --- control
    pc,                      \* position of the CPU thread
    image_index,             \* local image_index of draw_frame
    panic_cause,             \* "none", or why the process panicked
    \* --- history of the run (observers, not read by the program)
    ticks,                   \* number of ticks started
    builds,                  \* number of recreate_swapchain calls completed
    tick,                    \* what the current (or last) tick did
    total,                   \* what all ticks did: fence waits, successful acquires, submissions, presents
    all_plain,               \* every acquire and present so far was SUCCESS and no resize was flagged
    gpu_log,                 \* ticks whose acquire signal, colour writes, render-finished signal, present have happened
    scenario,                \* where the run stands relative to one resize: "plain", "resized", "first_tick", "after", "off"
    \* --- the selection functions of startup, called on their own
    selection                \* the last call of a selection function: its name, its input and what it returned

program_vars ==
         <<swapchain, swapchain_images, swapchain_image_views, framebuffers,
          command_buffers, uniform_buffers, uniform_buffers_memory,
          descriptor_pool, descriptor_sets, framebuffer_resized,
          in_flight_fence, image_available_semaphore, render_finished_semaphore,
          uniform_data, command_buffer_state, acquire_pending,
          graphics_queue, present_queue,
          pc, image_index, panic_cause,
          ticks, builds, tick, total, all_plain, gpu_log,
          swapchain_extent, render_pass, pipeline_layout, graphics_pipeline,
          depth_image, depth_image_memory, depth_image_view,
          resource_extent, unheld, dangling, double_destroyed, scenario,
          held, device_fields, static_data>>

\* The fields and the memory contents that new() sets up for the whole run.
static_fields == <<held, device_fields, static_data>>

vars == <<program_vars, selection>>

app_handles == <<swapchain, swapchain_images, swapchain_image_views, framebuffers,
                 uniform_buffers, uniform_buffers_memory,
                 descriptor_pool, descriptor_sets,
                 swapchain_extent, render_pass, pipeline_layout, graphics_pipeline,
                 depth_image, depth_image_memory, depth_image_view,
                 resource_extent, unheld, dangling, double_destroyed>>

gpu_state == <<in_flight_fence, image_available_semaphore, render_finished_semaphore,
               acquire_pending, graphics_queue, present_queue, gpu_log>>

\* ------------------------------------------------------------- result codes
\* What ash returns from acquire_next_image and queue_present:
\* Ok(.., false), Ok(.., true), Err(ERROR_OUT_OF_DATE_KHR), Err(other).
Results == {"SUCCESS", "SUBOPTIMAL_KHR", "ERROR_OUT_OF_DATE_KHR", "ERROR_DEVICE_LOST"}

\* ------------------------------------------------------------------ handles
\* A handle is identified by its kind, the build that created it (0 is
\* startup, k the k-th recreation) and its position in its Vec.
Handle(kind, build, i) == <<kind, build, i>>

HandleSeq(kind, build, n) == [i \in 1..n |-> Handle(kind, build, i)]

NewTick == [acquire |-> "none", present |-> "none", resized_at_start |-> FALSE,
            resized_at_present |-> FALSE,
            fence_waits |-> 0, fence_resets |-> 0, records |-> 0, submits |-> 0,
            presents |-> 0, recreates |-> 0, uniform_writes |-> << >>,
            aspect |-> "none",
            write_while_pending |-> FALSE]

NewTotal == [fence_waits |-> 0, acquires |-> 0, submits |-> 0, presents |-> 0]

NewGpuLog == [acquire_signaled |-> {}, color_writes |-> {}, render_finished |-> {},
              presented |-> {}]

\* ------------------------------------------------------- the build functions
\* get_swapchain_images: the platform reports n images for the swapchain of
\* build b.
get_swapchain_images(b, n) == HandleSeq("image", b, n)

\* create_image_views: one view per image.
create_image_views(images, b) ==
    [i \in 1..Len(images) |-> Handle("image_view", b, i)]

\* Variant of create_framebuffers: a fixed number of framebuffers (one per
\* frame in flight) instead of one per image view.
create_framebuffers_fixed_count(image_views, b) ==
    [i \in 1..2 |-> Handle("framebuffer", b, i)]

\* create_framebuffers: one framebuffer per image view.
create_framebuffers(image_views, b) ==
    [i \in 1..Len(image_views) |-> Handle("framebuffer", b, i)]

\* Variant of create_uniform_buffers: the handles of startup are returned
\* again.
create_uniform_buffers_of_startup(num_images, b) ==
    [buffers |-> HandleSeq("uniform_buffer", 0, num_images),
     memory  |-> HandleSeq("uniform_memory", 0, num_images)]

\* create_uniform_buffers: num_images buffers, each with its own memory.
create_uniform_buffers(num_images, b) ==
    [buffers |-> HandleSeq("uniform_buffer", b, num_images),
     memory  |-> HandleSeq("uniform_memory", b, num_images)]

\* create_command_buffers: framebuffer_count primary buffers from the pool.
create_command_buffers(framebuffer_count) ==
    HandleSeq("command_buffer", 0, framebuffer_count)

\* Variant of create_descriptor_pool: the pool of startup is kept.
create_descriptor_pool_of_startup(num_images, b) ==
    [handle |-> Handle("descriptor_pool", 0, 1), allocated |-> num_images]

\* create_descriptor_pool: a new pool, and num_images sets allocated from
\* it at once (the sets it returns are overwritten by create_descriptor_sets).
create_descriptor_pool(num_images, b) ==
    [handle |-> Handle("descriptor_pool", b, 1), allocated |-> num_images]

\* Variant of create_descriptor_sets: every set is written with the first
\* uniform buffer.
create_descriptor_sets_first_buffer(pool, buffers, num_images, b) ==
    [i \in 1..num_images |->
        [handle |-> Handle("descriptor_set", b, pool.allocated + i),
         binding |-> 0, buffer |-> buffers[1], offset |-> 0,
         range |-> "size_of_UniformBufferObject"]]

\* create_descriptor_sets: num_images further sets from the pool, set i
\* written at binding 0 with the whole of uniform buffer i.
create_descriptor_sets(pool, buffers, num_images, b) ==
    [i \in 1..num_images |->
        [handle |-> Handle("descriptor_set", b, pool.allocated + i),
         binding |-> 0, buffer |-> buffers[i], offset |-> 0,
         range |-> "size_of_UniformBufferObject"]]

\* The pool after create_descriptor_sets has allocated from it.
pool_after_sets(pool, num_images) ==
    [pool EXCEPT !.allocated = @ + num_images]

\* ------------------------------------------------------------------ extent
\* The extents a surface of the modelled platform can have: the startup
\* window's, and the same window turned by a quarter.
SurfaceExtents == {[width |-> WIDTH, height |-> HEIGHT],
                   [width |-> HEIGHT, height |-> WIDTH]}

\* capabilities.current_extent: an extent of the surface, or u32::MAX in both
\* fields.
CurrentExtents == SurfaceExtents \cup {[width |-> U32_MAX, height |-> U32_MAX]}

\* window.inner_size(): an extent of the surface, or one just outside what
\* the surface supports.
InnerSizes == SurfaceExtents \cup {[width |-> WIDTH + 1, height |-> HEIGHT],
                                  [width |-> HEIGHT - 1, height |-> WIDTH],
                                  [width |-> WIDTH, height |-> HEIGHT - 1],
                                  [width |-> HEIGHT, height |-> WIDTH + 1]}

\* capabilities.min_image_extent and max_image_extent.
min_image_extent == [width |-> HEIGHT, height |-> HEIGHT]
max_image_extent == [width |-> WIDTH, height |-> WIDTH]

\* u32::clamp.
clamp(v, lo, hi) == IF v < lo THEN lo ELSE IF v > hi THEN hi ELSE v

\* Variant of choose_swap_extent: the window's size is used as it is.
choose_swap_extent_unclamped(current_extent, inner_size) ==
    IF current_extent.width # U32_MAX THEN current_extent ELSE inner_size

\* choose_swap_extent.
choose_swap_extent(current_extent, inner_size) ==
    IF current_extent.width # U32_MAX
    THEN current_extent
    ELSE [width  |-> clamp(inner_size.width, min_image_extent.width,
                           max_image_extent.width),
          height |-> clamp(inner_size.height, min_image_extent.height,
                           max_image_extent.height)]

\* What choose_swap_extent returns over every surface extent and window
\* size of the platform.
ChosenExtents ==
    {choose_swap_extent(current_extent, inner_size) :
        current_extent \in CurrentExtents, inner_size \in InnerSizes}

\* Variant of create_depth_resources: the depth image always has the size of
\* the startup window.
create_depth_resources_startup_size(extent, b) ==
    [image  |-> Handle("depth_image", b, 1),
     memory |-> Handle("depth_image_memory", b, 1),
     view   |-> Handle("depth_image_view", b, 1),
     extent |-> [width |-> WIDTH, height |-> HEIGHT]]

\* create_depth_resources: an image of the given extent, its memory and a
\* view of it.
create_depth_resources(extent, b) ==
    [image  |-> Handle("depth_image", b, 1),
     memory |-> Handle("depth_image_memory", b, 1),
     view   |-> Handle("depth_image_view", b, 1),
     extent |-> extent]

\* ------------------------------------------------- create and destroy calls
\* One Vulkan call that creates (allocates) or destroys (frees) a handle.
Create(h) == [op |-> "create", h |-> h]
Destroy(h) == [op |-> "destroy", h |-> h]

\* device.device_wait_idle().
device_wait_idle == [op |-> "device_wait_idle", h |-> Handle("device", 0, 1)]

RECURSIVE Concat(_)
\* The concatenation of a sequence of sequences.
Concat(seqs) == IF seqs = << >> THEN << >> ELSE Head(seqs) \o Concat(Tail(seqs))

CreateAll(hs) == [i \in 1..Len(hs) |-> Create(hs[i])]
DestroyAll(hs) == [i \in 1..Len(hs) |-> Destroy(hs[i])]

\* create_buffer: the buffer, then the memory bound to it.
create_buffer_ops(buffer, memory) == <<Create(buffer), Create(memory)>>

\* create_graphics_pipeline: two shader modules, the layout, the pipeline;
\* the shader modules are destroyed before it returns.
create_graphics_pipeline_ops(b) ==
    <<Create(Handle("shader_module", b, 1)), Create(Handle("shader_module", b, 2)),
      Create(Handle("pipeline_layout", b, 1)), Create(Handle("graphics_pipeline", b, 1)),
      Destroy(Handle("shader_module", b, 1)), Destroy(Handle("shader_module", b, 2))>>

\* create_depth_resources: create_image (image, then memory), then the view.
create_depth_resources_ops(b) ==
    <<Create(Handle("depth_image", b, 1)), Create(Handle("depth_image_memory", b, 1)),
      Create(Handle("depth_image_view", b, 1))>>

\* create_uniform_buffers: create_buffer once per image.
create_uniform_buffers_ops(num_images, b) ==
    Concat([i \in 1..num_images |->
              create_buffer_ops(Handle("uniform_buffer", b, i),
                                Handle("uniform_memory", b, i))])

\* create_descriptor_pool: the pool and the num_images sets it allocates.
create_descriptor_pool_ops(num_images, b) ==
    <<Create(Handle("descriptor_pool", b, 1))>>
        \o CreateAll(HandleSeq("descriptor_set", b, num_images))

\* create_descriptor_sets: the sets it allocates.
create_descriptor_sets_ops(sets) == [i \in 1..Len(sets) |-> Create(sets[i].handle)]

\* Variant of cleanup_swapchain_ops: the descriptor-set layout is destroyed
\* with the pipeline layout.
cleanup_swapchain_ops_and_layout ==
    Concat(<<
        Concat([i \in 1..Len(uniform_buffers) |->
                  <<Destroy(uniform_buffers[i]), Destroy(uniform_buffers_memory[i])>>]),
        DestroyAll(framebuffers),
        <<Destroy(graphics_pipeline), Destroy(descriptor_pool.handle),
          Destroy(pipeline_layout), Destroy(Handle("descriptor_set_layout", 0, 2)),
          Destroy(render_pass)>>,
        DestroyAll(swapchain_image_views),
        <<Destroy(depth_image_view), Destroy(depth_image), Destroy(depth_image_memory),
          Destroy(swapchain)>> >>)

\* cleanup_swapchain: the destroy calls it makes on the handles held, in
\* order.
cleanup_swapchain_ops ==
    Concat(<<
        Concat([i \in 1..Len(uniform_buffers) |->
                  <<Destroy(uniform_buffers[i]), Destroy(uniform_buffers_memory[i])>>]),
        DestroyAll(framebuffers),
        <<Destroy(graphics_pipeline), Destroy(descriptor_pool.handle),
          Destroy(pipeline_layout), Destroy(render_pass)>>,
        DestroyAll(swapchain_image_views),
        <<Destroy(depth_image_view), Destroy(depth_image), Destroy(depth_image_memory),
          Destroy(swapchain)>> >>)

\* Variant of rebuild_ops: the framebuffers are created before the depth
\* resources.
rebuild_ops_framebuffers_first(b, n) ==
    Concat(<<
        <<Create(Handle("render_pass", b, 1))>>,
        <<Create(Handle("swapchain", b, 1))>>,
        CreateAll(create_image_views(get_swapchain_images(b, n), b)),
        <<Create(Handle("render_pass", b, 2))>>,
        create_graphics_pipeline_ops(b),
        CreateAll(create_framebuffers(create_image_views(get_swapchain_images(b, n), b), b)),
        create_depth_resources_ops(b),
        create_uniform_buffers_ops(n, b),
        create_descriptor_pool_ops(n, b),
        create_descriptor_sets_ops(
            create_descriptor_sets(create_descriptor_pool(n, b),
                                   create_uniform_buffers(n, b).buffers, n, b)) >>)

\* recreate_swapchain after cleanup_swapchain, for a swapchain of n images:
\* a render pass, the swapchain, the image views, the render pass again, the
\* pipeline, the depth resources, the framebuffers, the uniform buffers, the
\* descriptor pool and the descriptor sets.
rebuild_ops(b, n) ==
    Concat(<<
        <<Create(Handle("render_pass", b, 1))>>,
        <<Create(Handle("swapchain", b, 1))>>,
        CreateAll(create_image_views(get_swapchain_images(b, n), b)),
        <<Create(Handle("render_pass", b, 2))>>,
        create_graphics_pipeline_ops(b),
        create_depth_resources_ops(b),
        CreateAll(create_framebuffers(create_image_views(get_swapchain_images(b, n), b), b)),
        create_uniform_buffers_ops(n, b),
        create_descriptor_pool_ops(n, b),
        create_descriptor_sets_ops(
            create_descriptor_sets(create_descriptor_pool(n, b),
                                   create_uniform_buffers(n, b).buffers, n, b)) >>)

\* recreate_swapchain: device_wait_idle, cleanup_swapchain, the rebuild.
recreate_swapchain_ops(b, n) ==
    <<device_wait_idle>> \o cleanup_swapchain_ops \o rebuild_ops(b, n)

\* VulkanApp::new for a swapchain of n images: every create call, in order.
\* The vertex buffer, the index buffer and the descriptor-set layout are
\* created twice; the second handle of each is the one stored.
startup_ops(n) ==
    Concat(<<
        <<Create(Handle("instance", 0, 1)), Create(Handle("debug_messenger", 0, 1)),
          Create(Handle("surface", 0, 1)), Create(Handle("device", 0, 1))>>,
        create_buffer_ops(Handle("vertex_buffer", 0, 1), Handle("vertex_buffer_memory", 0, 1)),
        create_buffer_ops(Handle("index_buffer", 0, 1), Handle("index_buffer_memory", 0, 1)),
        <<Create(Handle("swapchain", 0, 1))>>,
        CreateAll(create_image_views(get_swapchain_images(0, n), 0)),
        <<Create(Handle("descriptor_set_layout", 0, 1))>>,
        <<Create(Handle("render_pass", 0, 1))>>,
        create_graphics_pipeline_ops(0),
        create_depth_resources_ops(0),
        CreateAll(create_framebuffers(create_image_views(get_swapchain_images(0, n), 0), 0)),
        <<Create(Handle("command_pool", 0, 1))>>,
        create_buffer_ops(Handle("vertex_buffer", 0, 2), Handle("vertex_buffer_memory", 0, 2)),
        create_buffer_ops(Handle("index_buffer", 0, 2), Handle("index_buffer_memory", 0, 2)),
        <<Create(Handle("descriptor_set_layout", 0, 2))>>,
        create_descriptor_pool_ops(n, 0),
        create_uniform_buffers_ops(n, 0),
        CreateAll(create_command_buffers(n)),
        <<Create(Handle("image_available_semaphore", 0, 1)),
          Create(Handle("render_finished_semaphore", 0, 1)),
          Create(Handle("in_flight_fence", 0, 1))>>,
        create_descriptor_sets_ops(
            create_descriptor_sets(create_descriptor_pool(n, 0),
                                   create_uniform_buffers(n, 0).buffers, n, 0)) >>)

\* What new() stores in the fields of VulkanApp that hold an object it
\* creates once.
held_by_new ==
    [instance |-> Handle("instance", 0, 1),
     debug_messenger |-> Handle("debug_messenger", 0, 1),
     surface |-> Handle("surface", 0, 1),
     device |-> Handle("device", 0, 1),
     command_pool |-> Handle("command_pool", 0, 1),
     vertex_buffer |-> Handle("vertex_buffer", 0, 2),
     vertex_buffer_memory |-> Handle("vertex_buffer_memory", 0, 2),
     index_buffer |-> Handle("index_buffer", 0, 2),
     index_buffer_memory |-> Handle("index_buffer_memory", 0, 2),
     descriptor_set_layout |-> Handle("descriptor_set_layout", 0, 2),
     image_available_semaphore |-> Handle("image_available_semaphore", 0, 1),
     render_finished_semaphore |-> Handle("render_finished_semaphore", 0, 1),
     in_flight_fence |-> Handle("in_flight_fence", 0, 1)]

\* Drop for VulkanApp: every call, in order.
drop_ops ==
    Concat(<<
        <<device_wait_idle>>,
        cleanup_swapchain_ops,
        <<Destroy(held.index_buffer), Destroy(held.index_buffer_memory),
          Destroy(held.vertex_buffer), Destroy(held.vertex_buffer_memory),
          Destroy(held.image_available_semaphore),
          Destroy(held.render_finished_semaphore),
          Destroy(held.in_flight_fence), Destroy(held.command_pool),
          Destroy(depth_image_view), Destroy(depth_image), Destroy(depth_image_memory),
          Destroy(descriptor_pool.handle), Destroy(held.descriptor_set_layout)>>,
        Concat([i \in 1..Len(uniform_buffers) |->
                  <<Destroy(uniform_buffers[i]), Destroy(uniform_buffers_memory[i])>>]),
        <<Destroy(held.device), Destroy(held.surface), Destroy(held.debug_messenger),
          Destroy(held.instance)>> >>)

Range(f) == {f[i] : i \in DOMAIN f}

\* Every handle that a field of VulkanApp holds.
HeldHandles ==
    {swapchain, render_pass, pipeline_layout, graphics_pipeline, depth_image,
     depth_image_memory, depth_image_view, descriptor_pool.handle}
        \cup Range(swapchain_image_views) \cup Range(framebuffers)
        \cup Range(command_buffers) \cup Range(uniform_buffers)
        \cup Range(uniform_buffers_memory)
        \cup {descriptor_sets[i].handle : i \in DOMAIN descriptor_sets}
        \cup Range(held)

\* The live handles: created, and not destroyed or released yet.
live == (HeldHandles \ dangling) \cup unheld

RECURSIVE Repeated(_)
\* The handles that occur more than once in the sequence s: those repeated
\* within one half of it, and those that occur in both halves.
Repeated(s) ==
    IF Len(s) = Cardinality(Range(s)) THEN {}
    ELSE LET left  == SubSeq(s, 1, Len(s) \div 2)
             right == SubSeq(s, Len(s) \div 2 + 1, Len(s))
         IN  Repeated(left) \cup Repeated(right) \cup (Range(left) \cap Range(right))

IsCreate(o) == o.op = "create"
IsDestroy(o) == o.op = "destroy"

\* The handles that the calls of ops are made on, in order.
HandlesOf(ops) == [i \in DOMAIN ops |-> ops[i].h]

\* The handles among handles that are released implicitly when those of
\* gone are destroyed: the sets of a descriptor pool, the command buffers of
\* a command pool.
Released(handles, gone) ==
    {h \in handles :
        \/ (h[1] = "descriptor_set" /\ Handle("descriptor_pool", h[2], 1) \in gone)
        \/ (h[1] = "command_buffer" /\ Handle("command_pool", h[2], 1) \in gone)}

\* The device's objects after the calls ops, starting from objects =
\* [live, double_destroyed].  No handle value is ever created twice, so a
\* handle is live afterwards when it was live or is created by ops, and is
\* neither destroyed nor released by ops; a destroy call is made on a handle
\* that is not live when the handle was neither live nor created, or when an
\* earlier call of ops has destroyed it.  (all and calls name the values of
\* the expressions they range over.)
ApplyOps(ops, objects) ==
    CHOOSE after \in
        {[live |-> (all \ Range(calls)) \ Released(all, Range(calls)),
          double_destroyed |->
              objects.double_destroyed \cup (Range(calls) \ all) \cup Repeated(calls)] :
            all \in {objects.live \cup Range(HandlesOf(SelectSeq(ops, IsCreate)))},
            calls \in {HandlesOf(SelectSeq(ops, IsDestroy))}} : TRUE

\* ---------------------------------------------------------------- startup
\* VulkanApp::new against a platform that reports n images and a surface of
\* the given extent.
Startup(n, extent) ==
    LET images  == get_swapchain_images(0, n)
        views   == create_image_views(images, 0)
        pool    == create_descriptor_pool(Len(images), 0)
        uniform == create_uniform_buffers(Len(images), 0)
        depth   == create_depth_resources(extent, 0)
        objects == ApplyOps(startup_ops(n), [live |-> {}, double_destroyed |-> {}])
    IN  /\ swapchain = Handle("swapchain", 0, 1)
        /\ swapchain_extent = extent
        /\ render_pass = Handle("render_pass", 0, 1)
        /\ pipeline_layout = Handle("pipeline_layout", 0, 1)
        /\ graphics_pipeline = Handle("graphics_pipeline", 0, 1)
        /\ depth_image = depth.image
        /\ depth_image_memory = depth.memory
        /\ depth_image_view = depth.view
        /\ resource_extent = [swapchain_images |-> extent,
                              depth_image |-> depth.extent, framebuffers |-> extent,
                              viewport |-> extent, scissor |-> extent]
        /\ swapchain_images = images
        /\ swapchain_image_views = views
        /\ framebuffers = create_framebuffers(views, 0)
        /\ uniform_buffers = uniform.buffers
        /\ uniform_buffers_memory = uniform.memory
        /\ command_buffers = create_command_buffers(Len(images))
        /\ descriptor_sets =
               create_descriptor_sets(pool, uniform.buffers, Len(images), 0)
        /\ descriptor_pool = pool_after_sets(pool, Len(images))
        /\ framebuffer_resized = FALSE
        /\ uniform_data = [i \in 1..Len(images) |-> 0]
        /\ command_buffer_state = [i \in 1..Len(images) |-> << >>]
        /\ unheld = objects.live \ HeldHandles
        /\ dangling = HeldHandles \ objects.live
        /\ double_destroyed = objects.double_destroyed

\* create_sync_objects: two unsignaled semaphores and a fence created
\* signaled.
create_sync_objects ==
    [image_available |-> 0, render_finished |-> 0, fence |-> "signaled"]

\* new(): physical_device and queue_family_indices from pick_physical_device,
\* the two queues from create_logical_device (get_device_queue).
device_fields_by_new ==
    [physical_device |-> Handle("physical_device", 0, 1),
     graphics_queue |-> Handle("graphics_queue", 0, 1),
     present_queue |-> Handle("present_queue", 0, 1),
     queue_family_indices |-> [graphics_family |-> {0}, present_family |-> {0}]]

\* create_vertex_buffer, create_index_buffer: the data copied into the
\* memory of the buffer through map_memory.
static_data_by_new ==
    [vertex_buffer_memory |-> "VERTICES", index_buffer_memory |-> "INDICES"]

Init ==
    /\ held = held_by_new
    /\ device_fields = device_fields_by_new
    /\ static_data = static_data_by_new
    /\ \E n \in 1..MaxImages, current_extent \in CurrentExtents :
           \* the window has just been created WIDTH x HEIGHT
           /\ current_extent.width \in {WIDTH, U32_MAX}
           /\ Startup(n, choose_swap_extent(current_extent,
                                            [width |-> WIDTH, height |-> HEIGHT]))
    /\ scenario = "plain"
    /\ selection = [fn |-> "none"]
    /\ in_flight_fence = create_sync_objects.fence
    /\ image_available_semaphore = create_sync_objects.image_available
    /\ render_finished_semaphore = create_sync_objects.render_finished
    /\ acquire_pending = << >>
    /\ graphics_queue = << >>
    /\ present_queue = << >>
    /\ pc = "idle"
    /\ image_index = 0
    /\ panic_cause = "none"
    /\ ticks = 0
    /\ builds = 0
    /\ tick = NewTick
    /\ total = NewTotal
    /\ all_plain = TRUE
    /\ gpu_log = NewGpuLog

\* ------------------------------------------------ one resize, as observed
\* The run relative to one resize: "plain" while every result was SUCCESS
\* and no resize was flagged, "resized" once one resize has been flagged
\* after that, "first_tick" during the first tick after it, "after" during
\* the later ticks, "off" once a second resize was flagged, a result other
\* than SUCCESS arrived outside the first tick, or a call failed with
\* another error.
AfterResult(s, result) ==
    IF result = "SUCCESS" THEN s
    ELSE IF s = "first_tick" /\ result \in {"SUBOPTIMAL_KHR", "ERROR_OUT_OF_DATE_KHR"}
    THEN s
    ELSE "off"

\* ----------------------------------------------------------- window events
\* Variant of Resized: the flag is set whatever the reported size is.
Resized_any_size(width, height) ==
    /\ pc = "idle"
    /\ framebuffer_resized' = TRUE
    /\ all_plain' = FALSE
    /\ scenario' = IF scenario = "plain" THEN "resized" ELSE "off"
    /\ UNCHANGED <<selection, static_fields>>
    /\ UNCHANGED <<app_handles, command_buffers, uniform_data, command_buffer_state,
                   gpu_state, pc, image_index, panic_cause, ticks, builds, tick, total>>

\* main: Event::WindowEvent Resized(new_size).  Events are dispatched by the
\* thread that runs the ticks, so one arrives only between two ticks.
Resized(width, height) ==
    /\ pc = "idle"
    /\ framebuffer_resized' = IF width > 0 /\ height > 0 THEN TRUE
                              ELSE framebuffer_resized
    /\ all_plain' = (all_plain /\ ~(width > 0 /\ height > 0))
    /\ scenario' = IF ~(width > 0 /\ height > 0) THEN scenario
                   ELSE IF scenario = "plain" THEN "resized" ELSE "off"
    /\ UNCHANGED <<selection, static_fields>>
    /\ UNCHANGED <<app_handles, command_buffers, uniform_data, command_buffer_state,
                   gpu_state, pc, image_index, panic_cause, ticks, builds, tick, total>>

\* ------------------------------------------------------------ draw_frame
\* Variant of FenceWaitReturns: the wait returns without the fence being
\* signaled (a zero timeout, or no wait at all).
FenceWaitReturns_no_wait == TRUE

\* wait_for_fences(in_flight_fence, true, u64::MAX) returns once the fence
\* is signaled.
FenceWaitReturns == in_flight_fence = "signaled"

\* draw_frame, entry: the wait on the in-flight fence.
WaitForFences ==
    /\ pc = "idle"
    /\ ticks < MaxTicks
    /\ FenceWaitReturns
    /\ pc' = "acquire"
    /\ ticks' = ticks + 1
    /\ tick' = [NewTick EXCEPT !.fence_waits = 1,
                                !.resized_at_start = framebuffer_resized]
    /\ total' = [total EXCEPT !.fence_waits = @ + 1]
    /\ scenario' = IF scenario = "resized" THEN "first_tick"
                   ELSE IF scenario = "first_tick" THEN "after"
                   ELSE scenario
    /\ UNCHANGED <<selection, static_fields>>
    /\ UNCHANGED <<app_handles, command_buffers, framebuffer_resized, uniform_data,
                   command_buffer_state, gpu_state, image_index, panic_cause,
                   builds, all_plain>>

\* The result codes for which ash returns Ok from acquire_next_image and
\* queue_present; every other code is returned as Err.
IsOk(result) == result \in {"SUCCESS", "SUBOPTIMAL_KHR"}

\* Variant of acquire_match: an out-of-date acquire falls through to the
\* rest of the tick.
acquire_match_out_of_date_continues(result) ==
    IF IsOk(result) \/ result = "ERROR_OUT_OF_DATE_KHR" THEN "continue" ELSE "panic"

\* draw_frame: the match on the result of acquire_next_image.
acquire_match(result) ==
    IF IsOk(result) THEN "continue"
    ELSE IF result = "ERROR_OUT_OF_DATE_KHR" THEN "recreate_and_return"
    ELSE "panic"

\* draw_frame: acquire_next_image and the match on its result.  With an Ok
\* result the platform returns the index of any image of the swapchain, and
\* signals the image-available semaphore later, when the presentation engine
\* has released the image; a failed acquire queues no signal.
AcquireNextImage(result, index) ==
    /\ pc = "acquire"
    /\ index \in 0..(Len(swapchain_images) - 1)
    /\ acquire_pending' = IF IsOk(result)
                          THEN Append(acquire_pending, [image |-> index, tick |-> ticks])
                          ELSE acquire_pending
    /\ tick' = [tick EXCEPT !.acquire = result]
    /\ total' = [total EXCEPT !.acquires = IF IsOk(result) THEN @ + 1 ELSE @]
    /\ all_plain' = (all_plain /\ result = "SUCCESS")
    /\ scenario' = AfterResult(scenario, result)
    /\ UNCHANGED <<selection, static_fields>>
    /\ CASE acquire_match(result) = "continue" ->
              /\ image_index' = IF IsOk(result) THEN index ELSE image_index
              /\ framebuffer_resized' = IF result = "SUBOPTIMAL_KHR" THEN TRUE
                                        ELSE framebuffer_resized
              /\ pc' = "update_uniform"
              /\ UNCHANGED panic_cause
         [] acquire_match(result) = "recreate_and_return" ->
              /\ pc' = "recreate"
              /\ UNCHANGED <<image_index, framebuffer_resized, panic_cause>>
         [] OTHER ->
              /\ pc' = "panicked"
              /\ panic_cause' = "acquire_error"
              /\ UNCHANGED <<image_index, framebuffer_resized>>
    /\ UNCHANGED <<app_handles, command_buffers, uniform_data, command_buffer_state,
                   in_flight_fence, image_available_semaphore,
                   render_finished_semaphore, graphics_queue, present_queue, gpu_log,
                   ticks, builds>>

\* update_uniform_buffer: the aspect argument of cgmath::perspective,
\* swapchain_extent.width as f32 / swapchain_extent.height as f32, as the
\* fraction it is computed from.
perspective_aspect(extent) == [numerator |-> extent.width, denominator |-> extent.height]

\* Variant of update_uniform_buffer: always the first slot.
update_uniform_buffer_first_slot(data, current_image, time) ==
    [data EXCEPT ![1] = time]

\* update_uniform_buffer(current_image): map, copy, unmap of
\* uniform_buffers_memory[current_image]; the value written depends on the
\* elapsed time, which is modelled by the number of the tick.
update_uniform_buffer(data, current_image, time) ==
    [data EXCEPT ![current_image + 1] = time]

\* draw_frame: self.update_uniform_buffer(image_index as usize).
UpdateUniformBuffer ==
    /\ pc = "update_uniform"
    /\ IF image_index < Len(uniform_buffers_memory)
       THEN /\ uniform_data' = update_uniform_buffer(uniform_data, image_index, ticks)
            /\ tick' = [tick EXCEPT
                  !.uniform_writes = Append(@, image_index),
                  !.aspect = perspective_aspect(swapchain_extent),
                  !.write_while_pending = (graphics_queue # << >>)]
            /\ pc' = "reset_fences"
            /\ UNCHANGED panic_cause
       ELSE /\ pc' = "panicked"
            /\ panic_cause' = "index_out_of_bounds"
            /\ UNCHANGED <<uniform_data, tick>>
    /\ UNCHANGED <<scenario, selection, static_fields>>
    /\ UNCHANGED <<app_handles, command_buffers, framebuffer_resized,
                   command_buffer_state, gpu_state, image_index,
                   ticks, builds, total, all_plain>>

\* draw_frame: reset_fences(in_flight_fence).
ResetFences ==
    /\ pc = "reset_fences"
    /\ in_flight_fence' = "unsignaled"
    /\ tick' = [tick EXCEPT !.fence_resets = @ + 1]
    /\ pc' = "record"
    /\ UNCHANGED <<scenario, selection, static_fields>>
    /\ UNCHANGED <<app_handles, command_buffers, framebuffer_resized, uniform_data,
                   command_buffer_state, image_available_semaphore,
                   render_finished_semaphore, acquire_pending, graphics_queue,
                   present_queue, gpu_log, image_index, panic_cause,
                   ticks, builds, total, all_plain>>

\* Variant of record_command_buffer: the framebuffer and the descriptor set
\* of the first image are used for every image.
record_command_buffer_first_image(index) ==
    <<[cmd |-> "begin_render_pass", render_pass |-> render_pass,
       framebuffer |-> framebuffers[1], render_area |-> swapchain_extent],
      [cmd |-> "bind_pipeline", pipeline |-> graphics_pipeline],
      [cmd |-> "bind_vertex_buffers", buffer |-> held.vertex_buffer, offset |-> 0],
      [cmd |-> "bind_index_buffer", buffer |-> held.index_buffer, offset |-> 0,
       index_type |-> "UINT16"],
      [cmd |-> "bind_descriptor_sets", layout |-> pipeline_layout,
       descriptor_set |-> descriptor_sets[1].handle],
      [cmd |-> "draw_indexed", index_count |-> INDICES_len, instance_count |-> 1],
      [cmd |-> "end_render_pass"]>>

\* Variant of record_command_buffer: the render area is the size the window
\* was created with.
record_command_buffer_window_size(index) ==
    <<[cmd |-> "begin_render_pass", render_pass |-> render_pass,
       framebuffer |-> framebuffers[index + 1],
       render_area |-> [width |-> WIDTH, height |-> HEIGHT]],
      [cmd |-> "bind_pipeline", pipeline |-> graphics_pipeline],
      [cmd |-> "bind_vertex_buffers", buffer |-> held.vertex_buffer, offset |-> 0],
      [cmd |-> "bind_index_buffer", buffer |-> held.index_buffer, offset |-> 0,
       index_type |-> "UINT16"],
      [cmd |-> "bind_descriptor_sets", layout |-> pipeline_layout,
       descriptor_set |-> descriptor_sets[index + 1].handle],
      [cmd |-> "draw_indexed", index_count |-> INDICES_len, instance_count |-> 1],
      [cmd |-> "end_render_pass"]>>

\* record_command_buffer(command_buffer, image_index): the commands recorded
\* between begin_command_buffer and end_command_buffer.
record_command_buffer(index) ==
    <<[cmd |-> "begin_render_pass", render_pass |-> render_pass,
       framebuffer |-> framebuffers[index + 1], render_area |-> swapchain_extent],
      [cmd |-> "bind_pipeline", pipeline |-> graphics_pipeline],
      [cmd |-> "bind_vertex_buffers", buffer |-> held.vertex_buffer, offset |-> 0],
      [cmd |-> "bind_index_buffer", buffer |-> held.index_buffer, offset |-> 0,
       index_type |-> "UINT16"],
      [cmd |-> "bind_descriptor_sets", layout |-> pipeline_layout,
       descriptor_set |-> descriptor_sets[index + 1].handle],
      [cmd |-> "draw_indexed", index_count |-> INDICES_len, instance_count |-> 1],
      [cmd |-> "end_render_pass"]>>

\* draw_frame: reset_command_buffer(command_buffers[image_index]) and
\* record_command_buffer(command_buffers[image_index], image_index).  Indexing
\* a Vec past its length panics.
ResetAndRecord ==
    /\ pc = "record"
    /\ IF /\ image_index < Len(command_buffers)
          /\ image_index < Len(framebuffers)
          /\ image_index < Len(descriptor_sets)
       THEN /\ command_buffer_state' =
                  [command_buffer_state EXCEPT ![image_index + 1] =
                        record_command_buffer(image_index)]
            /\ tick' = [tick EXCEPT !.records = @ + 1]
            /\ pc' = "submit"
            /\ UNCHANGED panic_cause
       ELSE /\ pc' = "panicked"
            /\ panic_cause' = "index_out_of_bounds"
            /\ UNCHANGED <<command_buffer_state, tick>>
    /\ UNCHANGED <<scenario, selection, static_fields>>
    /\ UNCHANGED <<app_handles, command_buffers, framebuffer_resized, uniform_data,
                   gpu_state, image_index, ticks, builds, total, all_plain>>

\* Variant of submit_info: the batch waits on no semaphore.
submit_info_no_wait(index) ==
    [wait_semaphores    |-> {},
     wait_dst_stage_mask |-> "COLOR_ATTACHMENT_OUTPUT",
     command_buffer     |-> command_buffers[index + 1],
     signal_semaphores  |-> {"render_finished_semaphore"},
     fence              |-> "in_flight_fence"]

\* Variant of submit_info: the batch is submitted without a fence.
submit_info_no_fence(index) ==
    [wait_semaphores    |-> {"image_available_semaphore"},
     wait_dst_stage_mask |-> "COLOR_ATTACHMENT_OUTPUT",
     command_buffer     |-> command_buffers[index + 1],
     signal_semaphores  |-> {"render_finished_semaphore"},
     fence              |-> "null"]

\* The vk::SubmitInfo of draw_frame and the fence given to queue_submit.
submit_info(index) ==
    [wait_semaphores    |-> {"image_available_semaphore"},
     wait_dst_stage_mask |-> "COLOR_ATTACHMENT_OUTPUT",
     command_buffer     |-> command_buffers[index + 1],
     signal_semaphores  |-> {"render_finished_semaphore"},
     fence              |-> "in_flight_fence"]

\* draw_frame: queue_submit(graphics_queue, submit_info, in_flight_fence).
QueueSubmit ==
    /\ pc = "submit"
    /\ graphics_queue' = Append(graphics_queue,
            [info |-> submit_info(image_index), tick |-> ticks, stage |-> "queued"])
    /\ tick' = [tick EXCEPT !.submits = @ + 1]
    /\ total' = [total EXCEPT !.submits = @ + 1]
    /\ pc' = "present"
    /\ UNCHANGED <<scenario, selection, static_fields>>
    /\ UNCHANGED <<app_handles, command_buffers, framebuffer_resized, uniform_data,
                   command_buffer_state, in_flight_fence, image_available_semaphore,
                   render_finished_semaphore, acquire_pending, present_queue,
                   gpu_log, image_index, panic_cause, ticks, builds, all_plain>>

\* The vk::PresentInfoKHR of draw_frame.
present_info(index) ==
    [wait_semaphores |-> {"render_finished_semaphore"},
     swapchain       |-> swapchain,
     image_index     |-> index]

\* Variant of present_match: every result other than SUCCESS asks for a
\* recreation, none panics.
present_match_no_panic(result) ==
    IF result = "SUCCESS" THEN "ok" ELSE "recreate"

\* draw_frame: the match on the result of queue_present; "recreate" sets the
\* local recreate_swapchain.
present_match(result) ==
    IF result = "SUCCESS" THEN "ok"
    ELSE IF result \in {"SUBOPTIMAL_KHR", "ERROR_OUT_OF_DATE_KHR"} THEN "recreate"
    ELSE "panic"

\* Variants of NeedsRecreate: the resize flag is not looked at; the tick
\* always recreates.
NeedsRecreate_ignores_flag(resized, recreate) == recreate

NeedsRecreate_always(resized, recreate) == TRUE

\* draw_frame: the condition under which the tick recreates the swapchain
\* after the present; recreate is the local recreate_swapchain.
NeedsRecreate(resized, recreate) == resized \/ recreate

\* draw_frame: queue_present and the handling of its result.  The semaphore
\* wait of the present is queued whatever the result is.
QueuePresent(result) ==
    /\ pc = "present"
    /\ present_queue' = Append(present_queue,
            [info |-> present_info(image_index), tick |-> ticks])
    /\ total' = [total EXCEPT !.presents = @ + 1]
    /\ all_plain' = (all_plain /\ result = "SUCCESS")
    /\ scenario' = AfterResult(scenario, result)
    /\ UNCHANGED <<selection, static_fields>>
    /\ tick' = [tick EXCEPT !.presents = @ + 1, !.present = result,
                            !.resized_at_present = framebuffer_resized]
    /\ IF present_match(result) = "panic"
       THEN /\ pc' = "panicked"
            /\ panic_cause' = "present_error"
            /\ UNCHANGED framebuffer_resized
       ELSE /\ IF NeedsRecreate(framebuffer_resized, present_match(result) = "recreate")
               THEN /\ framebuffer_resized' = FALSE
                    /\ pc' = "recreate"
               ELSE /\ pc' = "idle"
                    /\ UNCHANGED framebuffer_resized
            /\ UNCHANGED panic_cause
    /\ UNCHANGED <<app_handles, command_buffers, uniform_data, command_buffer_state,
                   in_flight_fence, image_available_semaphore,
                   render_finished_semaphore, acquire_pending, graphics_queue,
                   gpu_log, image_index, ticks, builds>>

\* ------------------------------------------------------ recreate_swapchain
\* Variant of DeviceIdle: the call returns at once.
DeviceIdle_no_wait == TRUE

\* device_wait_idle returns once no queue has an operation left to execute.
DeviceIdle == graphics_queue = << >> /\ present_queue = << >>

\* recreate_swapchain against a platform that reports n images: wait for the device, cleanup_swapchain,
\* then the rebuild.  The command buffers are not part of it.
RecreateSwapchain(n) ==
    /\ pc = "recreate"
    /\ builds < MaxBuilds
    /\ DeviceIdle
    /\ \E ops \in {recreate_swapchain_ops(builds + 1, n)} :
       /\ \E objects \in {ApplyOps(ops, [live |-> live,
                                         double_destroyed |-> double_destroyed])} :
          /\ LET b       == builds + 1
                 images  == get_swapchain_images(b, n)
                 views   == create_image_views(images, b)
                 uniform == create_uniform_buffers(Len(images), b)
                 pool    == create_descriptor_pool(Len(images), b)
             IN  /\ swapchain' = Handle("swapchain", b, 1)
                 /\ swapchain_images' = images
                 /\ swapchain_image_views' = views
                 /\ render_pass' = Handle("render_pass", b, 2)
                 /\ pipeline_layout' = Handle("pipeline_layout", b, 1)
                 /\ graphics_pipeline' = Handle("graphics_pipeline", b, 1)
                 /\ framebuffers' = create_framebuffers(views, b)
                 /\ uniform_buffers' = uniform.buffers
                 /\ uniform_buffers_memory' = uniform.memory
                 /\ descriptor_sets' =
                        create_descriptor_sets(pool, uniform.buffers, Len(images), b)
                 /\ descriptor_pool' = pool_after_sets(pool, Len(images))
                 /\ uniform_data' = [i \in 1..Len(images) |-> 0]
                 /\ builds' = b
          \* choose_swap_extent: the extent of the swapchain, the viewport, the
          \* depth image and the framebuffers
          /\ \E extent \in ChosenExtents :
                LET depth == create_depth_resources(extent, builds + 1)
                IN  /\ swapchain_extent' = extent
                    /\ depth_image' = depth.image
                    /\ depth_image_memory' = depth.memory
                    /\ depth_image_view' = depth.view
                    /\ resource_extent' = [swapchain_images |-> extent,
                                           depth_image  |-> depth.extent,
                                           framebuffers |-> extent,
                                           viewport     |-> extent,
                                           scissor      |-> extent]
          /\ UNCHANGED <<command_buffers, static_fields>>
          /\ \E now_held \in {HeldHandles'} :
                /\ unheld' = objects.live \ now_held
                /\ dangling' = now_held \ objects.live
          /\ double_destroyed' = objects.double_destroyed
    /\ tick' = [tick EXCEPT !.recreates = @ + 1]
    /\ pc' = "idle"
    /\ UNCHANGED <<command_buffer_state, framebuffer_resized,
                   gpu_state, image_index, panic_cause, ticks, total, all_plain,
                   scenario, selection>>

\* ---------------------------------------------------------------- shutdown
\* main: CloseRequested sets ControlFlow::Exit and the application is
\* dropped.  Drop waits for the device, so the step happens once the queues
\* are empty; the thread does nothing between the event and that wait.
Drop ==
    /\ pc = "idle"
    /\ DeviceIdle
    /\ UNCHANGED <<swapchain, swapchain_images, swapchain_image_views, framebuffers,
                   uniform_buffers, uniform_buffers_memory, descriptor_pool,
                   descriptor_sets, swapchain_extent, render_pass, pipeline_layout,
                   graphics_pipeline, depth_image, depth_image_memory,
                   depth_image_view, resource_extent, command_buffers,
                   static_fields>>
    /\ \E objects \in {ApplyOps(drop_ops, [live |-> live,
                                            double_destroyed |-> double_destroyed])} :
           /\ \E now_held \in {HeldHandles'} :
                 /\ unheld' = objects.live \ now_held
                 /\ dangling' = now_held \ objects.live
           /\ double_destroyed' = objects.double_destroyed
    /\ pc' = "destroyed"
    /\ UNCHANGED <<command_buffer_state, framebuffer_resized,
                   uniform_data, gpu_state, image_index, panic_cause, ticks, builds,
                   tick, total, all_plain, scenario, selection>>

\* ------------------------------------------------------------------ the GPU
\* Number of unconsumed signals of a semaphore.
Signals(sem) == IF sem = "image_available_semaphore" THEN image_available_semaphore
                ELSE render_finished_semaphore

\* The presentation engine releases the acquired image and signals the
\* semaphore given to acquire_next_image; an image with a present of an
\* earlier tick still queued has not been released.
GpuSignalImageAvailable ==
    /\ acquire_pending # << >>
    /\ \A k \in 1..Len(present_queue) :
           \/ present_queue[k].tick >= Head(acquire_pending).tick
           \/ present_queue[k].info.image_index # Head(acquire_pending).image
    /\ image_available_semaphore' = image_available_semaphore + 1
    /\ acquire_pending' = Tail(acquire_pending)
    /\ gpu_log' = [gpu_log EXCEPT !.acquire_signaled = @ \cup {Head(acquire_pending).tick}]
    /\ UNCHANGED <<scenario, selection, static_fields>>
    /\ UNCHANGED <<app_handles, command_buffers, framebuffer_resized, uniform_data,
                   command_buffer_state, in_flight_fence, render_finished_semaphore,
                   graphics_queue, present_queue, pc, image_index, panic_cause,
                   ticks, builds, tick, total, all_plain>>

\* The batch at the head of the graphics queue reaches the stage of its
\* wait_dst_stage_mask: it starts writing the colour attachment once every
\* semaphore it waits on is signaled, and unsignals them.
GpuBeginColorWrites ==
    /\ graphics_queue # << >>
    /\ Head(graphics_queue).stage = "queued"
    /\ LET waits == Head(graphics_queue).info.wait_semaphores
       IN  /\ \A sem \in waits : Signals(sem) > 0
           /\ image_available_semaphore' =
                  IF "image_available_semaphore" \in waits
                  THEN image_available_semaphore - 1 ELSE image_available_semaphore
    /\ graphics_queue' = [graphics_queue EXCEPT ![1].stage = "writing"]
    /\ gpu_log' = [gpu_log EXCEPT !.color_writes = @ \cup {Head(graphics_queue).tick}]
    /\ UNCHANGED <<scenario, selection, static_fields>>
    /\ UNCHANGED <<app_handles, command_buffers, framebuffer_resized, uniform_data,
                   command_buffer_state, in_flight_fence, render_finished_semaphore,
                   acquire_pending, present_queue, pc, image_index, panic_cause,
                   ticks, builds, tick, total, all_plain>>

\* The batch at the head of the graphics queue completes: its signal
\* semaphores and its fence are signaled.
GpuFinishSubmission ==
    /\ graphics_queue # << >>
    /\ Head(graphics_queue).stage = "writing"
    /\ render_finished_semaphore' =
           IF "render_finished_semaphore" \in Head(graphics_queue).info.signal_semaphores
           THEN render_finished_semaphore + 1 ELSE render_finished_semaphore
    /\ in_flight_fence' = IF Head(graphics_queue).info.fence = "in_flight_fence"
                          THEN "signaled" ELSE in_flight_fence
    /\ graphics_queue' = Tail(graphics_queue)
    /\ gpu_log' = [gpu_log EXCEPT !.render_finished = @ \cup {Head(graphics_queue).tick}]
    /\ UNCHANGED <<scenario, selection, static_fields>>
    /\ UNCHANGED <<app_handles, command_buffers, framebuffer_resized, uniform_data,
                   command_buffer_state, image_available_semaphore,
                   acquire_pending, present_queue, pc, image_index, panic_cause,
                   ticks, builds, tick, total, all_plain>>

\* The present at the head of the present queue begins once every semaphore
\* it waits on is signaled, and unsignals them; presents are processed in the
\* order they were queued.
GpuBeginPresent ==
    /\ present_queue # << >>
    /\ LET waits == Head(present_queue).info.wait_semaphores
       IN  /\ \A sem \in waits : Signals(sem) > 0
           /\ render_finished_semaphore' =
                  IF "render_finished_semaphore" \in waits
                  THEN render_finished_semaphore - 1 ELSE render_finished_semaphore
    /\ present_queue' = Tail(present_queue)
    /\ gpu_log' = [gpu_log EXCEPT !.presented = @ \cup {Head(present_queue).tick}]
    /\ UNCHANGED <<scenario, selection, static_fields>>
    /\ UNCHANGED <<app_handles, command_buffers, framebuffer_resized, uniform_data,
                   command_buffer_state, in_flight_fence, image_available_semaphore,
                   acquire_pending, graphics_queue, pc, image_index, panic_cause,
                   ticks, builds, tick, total, all_plain>>

\* ------------------------------------------------------------ specification
Next ==
    \/ \E width \in 0..MaxDim, height \in 0..MaxDim : Resized(width, height)
    \/ WaitForFences
    \/ \E result \in Results, index \in 0..(MaxImages - 1) :
           AcquireNextImage(result, index)
    \/ UpdateUniformBuffer
    \/ ResetFences
    \/ ResetAndRecord
    \/ QueueSubmit
    \/ \E result \in Results : QueuePresent(result)
    \/ \E n \in 1..MaxImages : RecreateSwapchain(n)
    \/ Drop
    \/ GpuSignalImageAvailable
    \/ GpuBeginColorWrites
    \/ GpuFinishSubmission
    \/ GpuBeginPresent

Spec == Init /\ [][Next]_vars

\* The device executes what is queued on it: no batch, present or semaphore
\* signal that can proceed waits for ever.
LiveSpec ==
    /\ Spec
    /\ WF_vars(GpuSignalImageAvailable)
    /\ WF_vars(GpuBeginColorWrites)
    /\ WF_vars(GpuFinishSubmission)
    /\ WF_vars(GpuBeginPresent)

\* ================================================= selection at startup
\* The functions by which new() and create_swapchain() choose among what the
\* platform reports are functions of their arguments alone.  SelectSpec calls
\* one of them, on any input of a bounded set, next to an application that
\* has started and does nothing else.

\* Every list of at most n elements of S.
RECURSIVE ListsOf(_, _)
ListsOf(S, n) ==
    IF n = 0 THEN {<< >>}
    ELSE LET shorter == ListsOf(S, n - 1)
         IN  shorter \cup {Append(l, x) : l \in shorter, x \in S}

\* No selection function has been called on its own yet.
NotCalled == selection.fn = "none"

\* What a call returned: a value, or a panic.
Returned(value) == [ok |-> TRUE, value |-> value]
Panicked == [ok |-> FALSE]

\* The least index of list whose element is in wanted, 0 when there is none
\* (Iterator::find).
find(list, wanted) ==
    IF \E i \in DOMAIN list : list[i] \in wanted
    THEN CHOOSE i \in DOMAIN list :
             /\ list[i] \in wanted
             /\ \A j \in 1..(i - 1) : list[j] \notin wanted
    ELSE 0

\* ---- choose_swap_surface_format
\* vk::SurfaceFormatKHR values a surface can report.
SurfaceFormats ==
    {[format |-> f, color_space |-> c] :
        f \in {"B8G8R8A8_SRGB", "B8G8R8A8_UNORM"},
        c \in {"SRGB_NONLINEAR", "EXTENDED_SRGB_LINEAR_EXT"}}

\* Variant of choose_swap_surface_format: the first entry, whatever it is.
choose_swap_surface_format_first(available_formats) ==
    IF available_formats = << >> THEN Panicked
    ELSE Returned(available_formats[1])

\* choose_swap_surface_format(available_formats).  The fallback
\* &available_formats[0] is an argument of unwrap_or, so it is evaluated
\* whether or not find returns an entry: an empty slice panics.
choose_swap_surface_format(available_formats) ==
    IF available_formats = << >> THEN Panicked
    ELSE LET found == find(available_formats,
                           {[format |-> "B8G8R8A8_SRGB",
                             color_space |-> "SRGB_NONLINEAR"]})
         IN  IF found # 0 THEN Returned(available_formats[found])
             ELSE Returned(available_formats[1])

ChooseSwapSurfaceFormat(available_formats) ==
    /\ NotCalled
    /\ selection' = [fn |-> "choose_swap_surface_format",
                     input |-> available_formats,
                     result |-> choose_swap_surface_format(available_formats)]
    /\ UNCHANGED program_vars

\* ---- choose_swap_present_mode
\* vk::PresentModeKHR values a surface can report.
PresentModes == {"IMMEDIATE", "MAILBOX", "FIFO", "FIFO_RELAXED"}

\* Variant of choose_swap_present_mode: the first mode of the list, FIFO for
\* an empty list.
choose_swap_present_mode_first(available_present_modes) ==
    IF available_present_modes = << >> THEN Returned("FIFO")
    ELSE Returned(available_present_modes[1])

\* choose_swap_present_mode(available_present_modes).
choose_swap_present_mode(available_present_modes) ==
    IF find(available_present_modes, {"MAILBOX"}) # 0 THEN Returned("MAILBOX")
    ELSE Returned("FIFO")

ChooseSwapPresentMode(available_present_modes) ==
    /\ NotCalled
    /\ selection' = [fn |-> "choose_swap_present_mode",
                     input |-> available_present_modes,
                     result |-> choose_swap_present_mode(available_present_modes)]
    /\ UNCHANGED program_vars

\* ---- choose_swap_extent
\* capabilities.current_extent as a surface can report it: an extent, the
\* marker in both fields, or the marker in one field only.
ReportedExtents ==
    CurrentExtents \cup {[width |-> WIDTH, height |-> U32_MAX],
                         [width |-> U32_MAX, height |-> HEIGHT]}

ChooseSwapExtent(current_extent, inner_size) ==
    /\ NotCalled
    /\ selection' = [fn |-> "choose_swap_extent",
                     input |-> [current_extent |-> current_extent,
                                inner_size |-> inner_size],
                     result |-> Returned(choose_swap_extent(current_extent, inner_size))]
    /\ UNCHANGED program_vars

\* ---- pick_physical_device
\* Option<u32>: the set of its values.
None == {}
Some(x) == {x}

\* QueueFamilyIndices::new(): no family found yet.
QueueFamilyIndices_new == [graphics_family |-> None, present_family |-> None]

\* QueueFamilyIndices::is_complete(): both families are known.
is_complete(indices) ==
    indices.graphics_family # None /\ indices.present_family # None

\* What the platform reports for one queue family: whether its flags contain
\* GRAPHICS, and whether it can present to the surface.
QueueFamilies == {[graphics |-> g, present |-> p] : g \in BOOLEAN, p \in BOOLEAN}

\* The device extensions a physical device can report.
DeviceExtensions == {"VK_KHR_swapchain", "VK_KHR_maintenance1"}

\* The physical devices a platform can enumerate: the queue families, the
\* extensions, the surface formats and the present modes of each.
PhysicalDevices ==
    {[queue_families |-> q, extensions |-> e, formats |-> f, present_modes |-> m] :
        q \in ListsOf(QueueFamilies, MaxFamilies),
        e \in SUBSET DeviceExtensions,
        f \in {<< >>, <<[format |-> "B8G8R8A8_UNORM", color_space |-> "SRGB_NONLINEAR"]>>},
        m \in {<< >>, <<"FIFO">>}}

\* find_queue_families: the loop from family i on (families are numbered
\* from 0, the list from 1).
RECURSIVE find_queue_families_from(_, _, _)
find_queue_families_from(queue_families, i, indices) ==
    IF i > Len(queue_families) THEN indices
    ELSE LET seen ==
                 [graphics_family |-> IF queue_families[i].graphics
                                      THEN Some(i - 1) ELSE indices.graphics_family,
                  present_family  |-> IF queue_families[i].present
                                      THEN Some(i - 1) ELSE indices.present_family]
         IN  IF is_complete(seen) THEN seen
             ELSE find_queue_families_from(queue_families, i + 1, seen)

\* find_queue_families(instance, surface_loader, surface, pdevice).
find_queue_families(pdevice) ==
    find_queue_families_from(pdevice.queue_families, 1, QueueFamilyIndices_new)

\* check_device_extension_support(instance, pdevice): every required
\* extension is among the available ones.
check_device_extension_support(pdevice) ==
    \A required \in {"VK_KHR_swapchain"} : required \in pdevice.extensions

\* Variant of is_device_suitable: the present modes are not looked at.
is_device_suitable_any_present_modes(pdevice) ==
    /\ is_complete(find_queue_families(pdevice))
    /\ check_device_extension_support(pdevice)
    /\ pdevice.formats # << >>

\* is_device_suitable(instance, surface_loader, surface, pdevice).
is_device_suitable(pdevice) ==
    LET indices == find_queue_families(pdevice)
        extensions_supported == check_device_extension_support(pdevice)
        swapchain_adequate ==
            IF extensions_supported
            THEN pdevice.formats # << >> /\ pdevice.present_modes # << >>
            ELSE FALSE
    IN  is_complete(indices) /\ extensions_supported /\ swapchain_adequate

\* pick_physical_device is in the middle of its search: find has examined
\* devices and none of them was suitable.
Searching ==
    selection.fn = "pick_physical_device" /\ selection.status = "searching"

\* pick_physical_device, one step of find over the enumerated devices: the
\* next device is examined; the search starts with the first device when no
\* search is going on.
ExaminePhysicalDevice(pdevice) ==
    /\ NotCalled \/ Searching
    /\ Searching => selection.examined < MaxDevices
    /\ selection' =
           [fn |-> "pick_physical_device",
            examined |-> IF Searching THEN selection.examined + 1 ELSE 1,
            device |-> pdevice,
            status |-> IF is_device_suitable(pdevice) THEN "found" ELSE "searching",
            result |-> IF is_device_suitable(pdevice)
                       THEN Returned(find_queue_families(pdevice))
                       ELSE Panicked]
    /\ UNCHANGED program_vars

\* pick_physical_device: the enumeration has no further device (or none at
\* all), find returns None and expect panics.
NoMorePhysicalDevices ==
    /\ NotCalled \/ Searching
    /\ selection' =
           [fn |-> "pick_physical_device",
            examined |-> IF Searching THEN selection.examined ELSE 0,
            status |-> "panicked",
            result |-> Panicked]
    /\ UNCHANGED program_vars

\* ---- create_logical_device
\* The QueueFamilyIndices that create_logical_device can be given.
FamilyIndices ==
    {[graphics_family |-> g, present_family |-> p] :
        g \in {None} \cup {Some(i) : i \in 0..(MaxFamilies - 1)},
        p \in {None} \cup {Some(i) : i \in 0..(MaxFamilies - 1)}}

\* The vk::DeviceQueueCreateInfo for one family: one queue, priority 1.0.
queue_create_info(queue_family) ==
    [queue_family_index |-> queue_family, queue_count |-> 1]

\* Variant of queue_create_infos: one entry for the graphics family and one
\* for the present family.
queue_create_infos_per_role(indices) ==
    {<<queue_create_info(g), queue_create_info(p)>> :
        g \in indices.graphics_family, p \in indices.present_family}

\* create_logical_device: the queue_create_infos it can build.  The families
\* are put into a HashSet and one entry is pushed per element; a HashSet is
\* iterated in an order that differs from run to run.
queue_create_infos(indices) ==
    LET unique_queue_families == indices.graphics_family \cup indices.present_family
    IN  {infos \in ListsOf({queue_create_info(f) : f \in unique_queue_families},
                           Cardinality(unique_queue_families)) :
            /\ Len(infos) = Cardinality(unique_queue_families)
            /\ \A i \in DOMAIN infos, j \in DOMAIN infos :
                   infos[i] = infos[j] => i = j}

\* create_logical_device(instance, pdevice, indices): unwrap of a family that
\* is None panics.
CreateLogicalDevice(indices) ==
    /\ NotCalled
    /\ IF indices.graphics_family = None \/ indices.present_family = None
       THEN selection' = [fn |-> "create_logical_device", input |-> indices,
                          result |-> Panicked]
       ELSE \E infos \in queue_create_infos(indices) :
                selection' = [fn |-> "create_logical_device", input |-> indices,
                              result |-> Returned(infos)]
    /\ UNCHANGED program_vars

\* ---- find_memory_type
\* vk::MemoryPropertyFlags: the sets of these bits.
MemoryPropertyBits == {"DEVICE_LOCAL", "HOST_VISIBLE"}

\* a & b on unsigned integers.
RECURSIVE BitAnd(_, _)
BitAnd(a, b) ==
    IF a = 0 \/ b = 0 THEN 0
    ELSE (a % 2) * (b % 2) + 2 * BitAnd(a \div 2, b \div 2)

\* 1 << i on u32; memory_type_count is at most VK_MAX_MEMORY_TYPES = 32, so
\* the shift stays within the 32 bits.
Shl1(i) == 2 ^ i

\* Variant of find_memory_type_from: the type filter is not looked at.
RECURSIVE find_memory_type_from_any_type(_, _, _, _)
find_memory_type_from_any_type(memory_types, type_filter, properties, i) ==
    IF i >= Len(memory_types) THEN Panicked
    ELSE IF properties \subseteq memory_types[i + 1] THEN Returned(i)
    ELSE find_memory_type_from_any_type(memory_types, type_filter, properties, i + 1)

\* find_memory_type: the loop from index i on.  memory_types holds the
\* property_flags of the memory_type_count types of the device.
RECURSIVE find_memory_type_from(_, _, _, _)
find_memory_type_from(memory_types, type_filter, properties, i) ==
    IF i >= Len(memory_types) THEN Panicked
    ELSE IF /\ BitAnd(type_filter, Shl1(i)) # 0
            /\ properties \subseteq memory_types[i + 1]
    THEN Returned(i)
    ELSE find_memory_type_from(memory_types, type_filter, properties, i + 1)

\* find_memory_type(instance, pdevice, type_filter, properties).
find_memory_type(memory_types, type_filter, properties) ==
    find_memory_type_from(memory_types, type_filter, properties, 0)

FindMemoryType(memory_types, type_filter, properties) ==
    /\ NotCalled
    /\ selection' = [fn |-> "find_memory_type",
                     input |-> [memory_types |-> memory_types,
                                type_filter |-> type_filter,
                                properties |-> properties],
                     result |-> find_memory_type(memory_types, type_filter, properties)]
    /\ UNCHANGED program_vars

\* ---- find_depth_format
\* The candidates of find_depth_format, in its order.
DepthCandidates == <<"D32_SFLOAT", "D32_SFLOAT_S8_UINT", "D24_UNORM_S8_UINT">>

\* vk::FormatFeatureFlags: the sets of these bits.
FormatFeatureBits == {"DEPTH_STENCIL_ATTACHMENT", "SAMPLED_IMAGE"}

\* What get_physical_device_format_properties can report for the candidates
\* on one physical device.
FormatProperties ==
    [{DepthCandidates[k] : k \in DOMAIN DepthCandidates} ->
        [linear_tiling_features : {{}, {"DEPTH_STENCIL_ATTACHMENT"}},
         optimal_tiling_features : SUBSET FormatFeatureBits]]

\* find_supported_format: the loop from candidate i on (1-based).
RECURSIVE find_supported_format_from(_, _, _, _, _)
find_supported_format_from(format_properties, candidates, tiling, features, i) ==
    IF i > Len(candidates) THEN Panicked
    ELSE IF /\ tiling = "LINEAR"
            /\ features \subseteq format_properties[candidates[i]].linear_tiling_features
    THEN Returned(candidates[i])
    ELSE IF /\ tiling = "OPTIMAL"
            /\ features \subseteq format_properties[candidates[i]].optimal_tiling_features
    THEN Returned(candidates[i])
    ELSE find_supported_format_from(format_properties, candidates, tiling, features, i + 1)

\* find_supported_format(instance, pdevice, candidates, tiling, features).
find_supported_format(format_properties, candidates, tiling, features) ==
    find_supported_format_from(format_properties, candidates, tiling, features, 1)

\* Variant of find_depth_format: the candidates are tried in the opposite
\* order.
find_depth_format_reversed(format_properties) ==
    find_supported_format(format_properties,
                          <<"D24_UNORM_S8_UINT", "D32_SFLOAT_S8_UINT", "D32_SFLOAT">>,
                          "OPTIMAL", {"DEPTH_STENCIL_ATTACHMENT"})

\* find_depth_format(instance, pdevice).
find_depth_format(format_properties) ==
    find_supported_format(format_properties, DepthCandidates,
                          "OPTIMAL", {"DEPTH_STENCIL_ATTACHMENT"})

\* The depth formats of one build (new, recreate_swapchain) on a physical
\* device: the build calls find_depth_format for the render pass, and
\* create_depth_resources calls it again for the depth image and its view.
\* A panic of the first call ends the build.
BuildDepthAttachments(format_properties) ==
    /\ NotCalled
    /\ \E depth_format \in {find_depth_format(format_properties)} :
          selection' =
              [fn |-> "find_depth_format",
               input |-> format_properties,
               result |-> depth_format,
               render_pass_depth_format |-> depth_format,
               depth_image_format |->
                   IF depth_format.ok THEN find_depth_format(format_properties)
                   ELSE Panicked]
    /\ UNCHANGED program_vars

\* ---- the specification of the selection functions
\* The application has started on a platform with one image and a surface of
\* the window's size; no selection function has been called on its own yet.
SelectInit ==
    /\ Init
    /\ Len(swapchain_images) = 1
    /\ swapchain_extent = [width |-> WIDTH, height |-> HEIGHT]

SelectNext ==
    \/ \E available_formats \in ListsOf(SurfaceFormats, MaxList) :
           ChooseSwapSurfaceFormat(available_formats)
    \/ \E available_present_modes \in ListsOf(PresentModes, MaxList) :
           ChooseSwapPresentMode(available_present_modes)
    \/ \E current_extent \in ReportedExtents, inner_size \in InnerSizes :
           ChooseSwapExtent(current_extent, inner_size)
    \/ \E pdevice \in PhysicalDevices : ExaminePhysicalDevice(pdevice)
    \/ NoMorePhysicalDevices
    \/ \E indices \in FamilyIndices : CreateLogicalDevice(indices)
    \/ \E memory_types \in ListsOf(SUBSET MemoryPropertyBits, MaxMemoryTypes),
          type_filter \in 0..(2 ^ (MaxMemoryTypes + 1) - 1),
          properties \in SUBSET MemoryPropertyBits :
           FindMemoryType(memory_types, type_filter, properties)
    \/ \E format_properties \in FormatProperties :
           BuildDepthAttachments(format_properties)

SelectSpec == SelectInit /\ [][SelectNext]_vars

\* ============================================================== properties
\* Positions of a tick after the uniform update.
AfterUpdate == {"reset_fences", "record", "submit", "present"}

\* The acquire of the current (or last) tick returned an image.
Acquired == IsOk(tick.acquire)

\* C1: after startup and after every recreate_swapchain, the numbers of image
\* views, framebuffers, descriptor sets, uniform buffers and uniform-buffer
\* memories each equal the number of images of the current swapchain,
\* whatever image count the platform reported.
Inv_C1_CountsEqualImageCount ==
    LET n == Len(swapchain_images)
    IN  /\ Len(swapchain_image_views) = n
        /\ Len(framebuffers) = n
        /\ Len(descriptor_sets) = n
        /\ Len(uniform_buffers) = n
        /\ Len(uniform_buffers_memory) = n

\* A recreation has completed with an image count different from the one of
\* startup (command_buffers keeps the length of startup).
Wit_C1_RebuiltWithOtherCount ==
    /\ pc = "idle"
    /\ builds >= 1
    /\ Len(swapchain_images) # Len(command_buffers)

\* C2: a command buffer is reset and re-recorded only after the fence wait of
\* the tick has returned, and never while a submission that uses it is still
\* queued or executing on the GPU.
Thm_C2_RecordOnlyAfterFence ==
    [][(pc = "record" /\ pc' = "submit") =>
          /\ tick.fence_waits = 1
          /\ \A k \in 1..Len(graphics_queue) :
                 graphics_queue[k].info.command_buffer # command_buffers[image_index + 1]]_vars

\* A command buffer that an earlier tick submitted has been re-recorded.
Wit_C2_BufferReRecorded ==
    /\ pc = "submit"
    /\ total.submits >= 1
    /\ Len(command_buffers) = 1

\* C3: the colour-attachment writes of the batch of a tick begin only after
\* the image-available semaphore signal of that tick's acquire, and the
\* present of a tick begins only after the render-finished semaphore signal
\* of that tick's submission.
Inv_C3_SemaphoreOrdering ==
    /\ gpu_log.color_writes \subseteq gpu_log.acquire_signaled
    /\ gpu_log.presented \subseteq gpu_log.render_finished

\* Two ticks have been rendered and presented on the GPU.
Wit_C3_TwoTicksPresented ==
    /\ Cardinality(gpu_log.color_writes) >= 2
    /\ Cardinality(gpu_log.presented) >= 2

\* C4: a tick that acquires an image writes exactly one uniform slot, the
\* slot of the acquired image index, while no submission is pending on the
\* GPU (after the fence wait, before the submission); no step of a tick
\* changes the contents of any other slot.
Thm_C4_OneUniformSlotPerTick ==
    /\ []((Acquired /\ pc \in AfterUpdate \cup {"idle", "recreate", "panicked"}) =>
             /\ tick.uniform_writes = <<image_index>>
             /\ ~tick.write_while_pending
             /\ tick.fence_waits = 1)
    /\ []((Acquired /\ pc = "update_uniform") =>
             tick.uniform_writes = << >> /\ tick.submits = 0)
    /\ [][(uniform_buffers_memory' = uniform_buffers_memory) =>
             \A i \in DOMAIN uniform_data :
                 IF pc = "update_uniform" /\ pc' = "reset_fences" /\ i = image_index + 1
                 THEN uniform_data'[i] # uniform_data[i] /\ graphics_queue = << >>
                 ELSE uniform_data'[i] = uniform_data[i]]_vars

\* A tick has written the slot of image 1 while slot 0 holds an earlier
\* tick's data.
Wit_C4_SecondSlotWritten ==
    /\ pc = "reset_fences"
    /\ image_index = 1
    /\ uniform_data[1] # 0
    /\ uniform_data[2] = ticks

\* C5: a tick whose acquire reports out-of-date recreates the swapchain and
\* returns, with no fence reset, no command-buffer recording, no queue
\* submission and no present.
Inv_C5_OutOfDateAcquireAborts ==
    tick.acquire = "ERROR_OUT_OF_DATE_KHR" =>
        /\ tick.fence_resets = 0
        /\ tick.records = 0
        /\ tick.submits = 0
        /\ tick.presents = 0
        /\ tick.uniform_writes = << >>
        /\ in_flight_fence = "signaled"
        /\ \/ pc = "recreate" /\ tick.recreates = 0
           \/ pc \in {"idle", "destroyed"} /\ tick.recreates = 1

\* A tick aborted at an out-of-date acquire has returned.
Wit_C5_AbortedTickReturned ==
    /\ pc = "idle"
    /\ tick.acquire = "ERROR_OUT_OF_DATE_KHR"
    /\ tick.recreates = 1

\* C6: a tick whose acquire reports suboptimal still updates the uniform
\* slot, submits and presents, and then recreates the swapchain exactly once
\* before it returns (stated for every tick that ends without a GPU error).
CE_C6_SuboptimalTickCompletes ==
    (/\ tick.acquire = "SUBOPTIMAL_KHR"
     /\ pc \in {"idle", "panicked"}
     /\ panic_cause \notin {"acquire_error", "present_error"}) =>
        /\ Len(tick.uniform_writes) = 1
        /\ tick.submits = 1
        /\ tick.presents = 1
        /\ tick.recreates = 1

\* C7: when the present reports out-of-date or suboptimal, or the resize
\* flag is set when the present returns, the tick returns with the swapchain
\* recreated once and the flag cleared; otherwise the tick returns without a
\* recreation.
Thm_C7_PresentTriggersRecreate ==
    [][(pc # "idle" /\ pc' = "idle" /\ tick'.present # "none") =>
          IF \/ tick'.present \in {"ERROR_OUT_OF_DATE_KHR", "SUBOPTIMAL_KHR"}
             \/ tick'.resized_at_present
          THEN /\ tick'.recreates = 1
               /\ framebuffer_resized' = FALSE
               /\ swapchain' = Handle("swapchain", builds', 1)
               /\ swapchain' # swapchain
          ELSE /\ tick'.recreates = 0
               /\ swapchain' = swapchain]_vars

\* A tick whose present reported SUCCESS has recreated the swapchain because
\* of the resize flag alone.
Wit_C7_RecreatedByFlagAlone ==
    /\ pc = "idle"
    /\ tick.present = "SUCCESS"
    /\ tick.acquire = "SUCCESS"
    /\ tick.resized_at_present
    /\ tick.recreates = 1
    /\ ~framebuffer_resized

\* C8: when every acquire and present returns success, suboptimal or
\* out-of-date, no tick ends in a panic: the process panics only on a GPU
\* error code.
CE_C8_NoPanicWithoutGpuError ==
    pc = "panicked" => panic_cause \in {"acquire_error", "present_error"}

\* C9: an acquire or present returning an error code other than out-of-date
\* panics at that call: no recreation, no submission and no present follows
\* it.
Thm_C9_OtherErrorsPanic ==
    /\ [](tick.acquire = "ERROR_DEVICE_LOST" =>
             /\ pc = "panicked" /\ panic_cause = "acquire_error"
             /\ tick.recreates = 0 /\ tick.submits = 0 /\ tick.presents = 0
             /\ tick.fence_resets = 0)
    /\ [](tick.present = "ERROR_DEVICE_LOST" =>
             /\ pc = "panicked" /\ panic_cause = "present_error"
             /\ tick.recreates = 0 /\ tick.submits = 1 /\ tick.presents = 1)
    /\ [][pc = "panicked" =>
             /\ pc' = "panicked"
             /\ UNCHANGED <<tick, total, builds, ticks, app_handles>>]_vars

\* The process has panicked at the present of a tick that came after a
\* recreation.
Wit_C9_PanickedAtPresent ==
    /\ pc = "panicked"
    /\ tick.present = "ERROR_DEVICE_LOST"
    /\ builds >= 1

\* C10: n ticks in which every acquire and present returns SUCCESS and no
\* resize is flagged perform n fence waits, n submissions and n presents,
\* and no recreation.
Inv_C10_PlainTicks ==
    all_plain =>
        /\ builds = 0
        /\ tick.recreates = 0
        /\ pc \notin {"recreate", "panicked"}
        /\ total.fence_waits = ticks
        /\ pc = "idle" => (total.submits = ticks /\ total.presents = ticks)

\* Three plain ticks have run against a swapchain of two images.
Wit_C10_ThreePlainTicks ==
    /\ all_plain
    /\ pc = "idle"
    /\ ticks = 3
    /\ Len(swapchain_images) = 2

\* ------------------------------------------------ resource lifecycle claims
\* The positions in ops of the create calls, and of the destroy calls, on
\* handles of the given kind.
CreatePos(ops, kind) ==
    {i \in DOMAIN ops : ops[i].op = "create" /\ ops[i].h[1] = kind}
DestroyPos(ops, kind) ==
    {i \in DOMAIN ops : ops[i].op = "destroy" /\ ops[i].h[1] = kind}

\* Every position of A is before every position of B.
AllBefore(A, B) == \A i \in A, j \in B : i < j

\* The step is a recreation: recreate_swapchain runs from start to end.
Recreating == pc = "recreate" /\ pc' = "idle"

\* The step is the shutdown: Drop runs from start to end.
Dropping == pc # "destroyed" /\ pc' = "destroyed"

\* The extent-dependent handles that the application holds.
ExtentDependent ==
    {swapchain, render_pass, pipeline_layout, graphics_pipeline, depth_image,
     depth_image_memory, depth_image_view, descriptor_pool.handle}
        \cup Range(swapchain_image_views) \cup Range(framebuffers)
        \cup Range(uniform_buffers) \cup Range(uniform_buffers_memory)
        \cup {descriptor_sets[i].handle : i \in DOMAIN descriptor_sets}

\* C11 (as claimed): once one resize has been flagged in a run that was
\* plain until then, and the platform reports it in the first tick after it
\* at most (success, suboptimal or out-of-date at the acquire or the
\* present), the run recreates the swapchain exactly once: at most once at
\* any time, once by the time the second tick after the resize starts; and
\* the framebuffers have the extent of the swapchain.
CE_C11_OneRecreationPerResize ==
    scenario \in {"resized", "first_tick", "after"} =>
        /\ builds <= 1
        /\ scenario = "after" => builds = 1
        /\ resource_extent.framebuffers = swapchain_extent

\* C12: after a recreation every extent-dependent handle held (swapchain,
\* image views, render pass, pipeline and layout, framebuffers, depth image,
\* memory and view, uniform buffers and memories, descriptor pool and sets)
\* was created by a call of that recreation, and none of them was held
\* before it.
Thm_C12_RecreationReplacesEveryHandle ==
    [][Recreating =>
        \A now_held \in {ExtentDependent'} :
            /\ now_held \subseteq
                   Range(HandlesOf(SelectSeq(
                       recreate_swapchain_ops(builds + 1, Len(swapchain_images')),
                       IsCreate)))
            /\ now_held \cap HeldHandles = {}
            /\ \A h \in now_held : h[2] = builds']_vars

\* Two recreations have happened.
Wit_C12_RecreatedTwice ==
    /\ builds = 2
    /\ pc = "idle"
    /\ swapchain = Handle("swapchain", 2, 1)
    /\ Len(swapchain_images) = 2

\* C13 (as claimed): no handle is passed to a destroy or free call while it
\* is not live, over the whole run including the shutdown.
CE_C13_NoDoubleDestroy == double_destroyed = {}

\* The number of handles that are live after a startup with the largest
\* image count.
StartupLiveCount ==
    Cardinality(ApplyOps(startup_ops(MaxImages),
                         [live |-> {}, double_destroyed |-> {}]).live)

\* C14 (as claimed): at the end of the shutdown no handle is live, and
\* before it the number of live handles never exceeds that of a startup,
\* however many recreations have happened.
CE_C14_NoLeak ==
    /\ pc = "destroyed" => live = {}
    /\ pc # "destroyed" => Cardinality(live) <= StartupLiveCount

\* C15 (as claimed): startup creates the vertex buffer, the index buffer and
\* the descriptor-set layout exactly once each, and the field holds that
\* handle.
CE_C15_StaticResourcesBuiltOnce ==
    (builds = 0 /\ ticks = 0 /\ pc = "idle") =>
        \A ops \in {startup_ops(Len(swapchain_images))}, now_live \in {live} :
            \A kind \in {"vertex_buffer", "index_buffer", "descriptor_set_layout"} :
                /\ Cardinality(CreatePos(ops, kind)) = 1
                /\ {h \in now_live : h[1] = kind} = {held[kind]}

\* C16: a recreation and the shutdown start with the wait for the device and
\* tear down while both queues are empty, nothing being submitted in the
\* step; in a recreation every destroy call on a handle of an earlier build
\* is before every create call.
Thm_C16_TeardownAfterDeviceIdle ==
    /\ [][Recreating =>
            \A ops \in {recreate_swapchain_ops(builds + 1, Len(swapchain_images'))} :
                /\ ops[1] = device_wait_idle
                /\ graphics_queue = << >> /\ present_queue = << >>
                /\ graphics_queue' = << >> /\ present_queue' = << >>
                /\ AllBefore({i \in DOMAIN ops : ops[i].op = "destroy"
                                                  /\ ops[i].h[2] <= builds},
                             {i \in DOMAIN ops : ops[i].op = "create"})]_vars
    /\ [][Dropping =>
            /\ drop_ops[1] = device_wait_idle
            /\ graphics_queue = << >> /\ present_queue = << >>
            /\ graphics_queue' = << >> /\ present_queue' = << >>]_vars

\* A recreation and then the shutdown have happened, after a submission.
Wit_C16_RecreatedThenDestroyed ==
    /\ pc = "destroyed"
    /\ builds >= 1
    /\ total.submits >= 1

\* What each kind of resource is created from, for the kinds torn down by
\* cleanup_swapchain: <<a, b>> says a resource of kind a depends on one of
\* kind b.
DependsOn ==
    {<<"framebuffer", "image_view">>, <<"framebuffer", "depth_image_view">>,
     <<"framebuffer", "render_pass">>, <<"graphics_pipeline", "pipeline_layout">>,
     <<"graphics_pipeline", "render_pass">>, <<"descriptor_pool", "uniform_buffer">>,
     <<"image_view", "swapchain">>, <<"depth_image_view", "depth_image">>,
     <<"depth_image", "depth_image_memory">>}

\* C17 (as claimed): every teardown by cleanup_swapchain, in a recreation
\* and in the shutdown, destroys each resource before every resource it
\* depends on.
CE_C17_ReverseDependencyTeardown ==
    [][(Recreating \/ Dropping) =>
        \A ops \in {cleanup_swapchain_ops}, d \in DependsOn :
            AllBefore(DestroyPos(ops, d[1]), DestroyPos(ops, d[2]))]_vars

\* The create calls of ops on kinds[1], kinds[2], ... come in that order,
\* counting only the calls whose handle is in handles.  (rank gives, for each
\* such call, the place of its kind in kinds.)
CreatedInOrder(ops, kinds, handles) ==
    \A rank \in {[i \in {j \in DOMAIN ops : /\ ops[j].op = "create"
                                             /\ ops[j].h \in handles
                                             /\ ops[j].h[1] \in Range(kinds)} |->
                     CHOOSE a \in DOMAIN kinds : kinds[a] = ops[i].h[1]]} :
        \A i \in DOMAIN rank, j \in DOMAIN rank : i < j => rank[i] <= rank[j]

\* The order in which new and recreate_swapchain call the build functions
\* whose result they keep.
BuildOrder ==
    <<"swapchain", "image_view", "render_pass", "pipeline_layout",
      "graphics_pipeline", "depth_image", "depth_image_memory", "depth_image_view",
      "framebuffer">>

\* C18 (as claimed): startup and every rebuild create the swapchain, then
\* the image views, the render pass, the depth resources, the framebuffers
\* and the graphics pipeline, in that order.
CE_C18_BuildOrderAsClaimed ==
    /\ []((builds = 0 /\ ticks = 0 /\ pc = "idle") =>
            \A ops \in {startup_ops(Len(swapchain_images))} :
                \A made \in {Range(HandlesOf(ops))} :
                    CreatedInOrder(ops,
                        <<"swapchain", "image_view", "render_pass", "depth_image",
                          "framebuffer", "graphics_pipeline">>, made))
    /\ [][Recreating =>
            \A ops \in {recreate_swapchain_ops(builds + 1, Len(swapchain_images'))} :
                \A made \in {Range(HandlesOf(ops))} :
                    CreatedInOrder(ops,
                        <<"swapchain", "image_view", "render_pass", "depth_image",
                          "framebuffer", "graphics_pipeline">>, made)]_vars

\* C18 (amended): startup creates the swapchain, then the image views, the
\* render pass, the pipeline layout and the graphics pipeline, the depth
\* image, its memory and its view, and the framebuffers, in that order; every
\* rebuild first creates a render pass that it does not keep, and then
\* creates the same resources in the same order.
Thm_C18_BuildOrder ==
    /\ []((builds = 0 /\ ticks = 0 /\ pc = "idle") =>
            \A ops \in {startup_ops(Len(swapchain_images))} :
                \A made \in {Range(HandlesOf(ops))} :
                    CreatedInOrder(ops, BuildOrder, made))
    /\ [][Recreating =>
            \A ops \in {recreate_swapchain_ops(builds + 1, Len(swapchain_images'))},
               now_held \in {HeldHandles'} :
                \A first \in {CHOOSE i \in DOMAIN ops :
                                  /\ ops[i].op = "create"
                                  /\ \A j \in 1..(i - 1) : ops[j].op # "create"} :
                    /\ ops[first].h[1] = "render_pass"
                    /\ ops[first].h \notin now_held
                    /\ \A made \in {Range(HandlesOf(ops)) \ {ops[first].h}} :
                           CreatedInOrder(ops, BuildOrder, made)]_vars

\* A rebuild has happened after a startup with another image count.
Wit_C18_Rebuilt ==
    /\ builds = 1
    /\ pc = "idle"
    /\ Len(swapchain_images) # Len(command_buffers)

\* The kinds of handle that are not created from the logical device.
InstanceLevel == {"instance", "debug_messenger", "surface", "device"}

\* C19 (as claimed): the shutdown starts with the wait for the device,
\* destroys the device after every destroy call on a resource created from
\* it and with no such resource left live, then the surface and the debug
\* messenger, and the instance last.
CE_C19_ShutdownOrder ==
    [][Dropping =>
        \A ops \in {drop_ops} :
            /\ ops[1] = device_wait_idle
            /\ \A i \in DestroyPos(ops, "device"), j \in DOMAIN ops :
                   (ops[j].op = "destroy" /\ ops[j].h[1] \notin InstanceLevel)
                       => j < i
            /\ {h \in live' : h[1] \notin InstanceLevel} = {}
            /\ AllBefore(DestroyPos(ops, "device"),
                         DestroyPos(ops, "surface")
                             \cup DestroyPos(ops, "debug_messenger")
                             \cup DestroyPos(ops, "instance"))
            /\ DestroyPos(ops, "instance") = {Len(ops)}]_vars

\* C20: until the shutdown exactly one depth image, one depth memory and one
\* depth view are live, they are the ones held, and the depth image has the
\* extent of the swapchain.
Inv_C20_OneDepthResource ==
    pc # "destroyed" =>
        /\ \A depth \in {{h \in live : h[1] \in {"depth_image", "depth_image_memory",
                                                  "depth_image_view"}}} :
               /\ depth = {depth_image, depth_image_memory, depth_image_view}
               /\ Cardinality(depth) = 3
        /\ resource_extent.depth_image = swapchain_extent

\* A recreation has changed the extent from that of startup, and a tick has
\* run since.
Wit_C20_DepthRebuiltForNewExtent ==
    /\ builds = 1
    /\ pc = "idle"
    /\ swapchain_extent = [width |-> HEIGHT, height |-> WIDTH]
    /\ depth_image = Handle("depth_image", 1, 1)
    /\ tick.recreates = 0
    /\ tick.presents = 1

\* ---------------------------------------------------- per-image claims
\* C21: after startup and after every recreation, for every image index i
\* of the swapchain, descriptor set i is live and is written, at binding 0
\* and for the whole UniformBufferObject, with uniform buffer i, which is
\* live and of the same build; the set that a tick binds in the command
\* buffer it records is the set of the image whose uniform slot it wrote.
Thm_C21_DescriptorSetPerImage ==
    /\ [](pc # "destroyed" =>
            \A now_live \in {live} :
                \A i \in 1..Len(swapchain_images) :
                    /\ descriptor_sets[i].handle \in now_live
                    /\ descriptor_sets[i].buffer = uniform_buffers[i]
                    /\ descriptor_sets[i].binding = 0
                    /\ descriptor_sets[i].offset = 0
                    /\ descriptor_sets[i].range = "size_of_UniformBufferObject"
                    /\ uniform_buffers[i] \in now_live
                    /\ uniform_buffers_memory[i] \in now_live
                    /\ uniform_buffers[i][2] = descriptor_sets[i].handle[2]
                    /\ uniform_buffers[i][3] = i
                    /\ uniform_buffers_memory[i] =
                           Handle("uniform_memory", uniform_buffers[i][2], i))
    /\ [][tick'.records = tick.records + 1 =>
            /\ tick.uniform_writes = <<image_index>>
            /\ \A recorded \in {command_buffer_state'[image_index + 1]} :
                   \E c \in DOMAIN recorded :
                       /\ recorded[c].cmd = "bind_descriptor_sets"
                       /\ recorded[c].descriptor_set
                              = descriptor_sets[image_index + 1].handle]_vars

\* After a recreation, a tick has recorded the draw for the second image of
\* two.
Wit_C21_SecondImageOfRebuild ==
    /\ builds = 1
    /\ pc = "submit"
    /\ image_index = 1
    /\ tick.records = 1
    /\ descriptor_sets[2].buffer = Handle("uniform_buffer", 1, 2)

\* ------------------------------------------------------- tick claims
\* The step that the thread takes next at each position of a tick after the
\* acquire can be taken at once, whatever the device is doing.
NoWaitAfterAcquire ==
    /\ pc = "update_uniform" => ENABLED UpdateUniformBuffer
    /\ pc = "reset_fences" => ENABLED ResetFences
    /\ pc = "record" => ENABLED ResetAndRecord
    /\ pc = "submit" => ENABLED QueueSubmit
    /\ pc = "present" => ENABLED (\E result \in Results : QueuePresent(result))

\* C22 (as claimed): within a tick, the recreation it performs included, the
\* thread can be held up only at the wait on the in-flight fence and at the
\* acquire: at every other position its next step can be taken at once.
CE_C22_OnlyFenceAndAcquireBlock ==
    /\ NoWaitAfterAcquire
    /\ (pc = "recreate" /\ builds < MaxBuilds) =>
           ENABLED (\E n \in 1..MaxImages : RecreateSwapchain(n))

\* C22 (amended): within a tick the thread can be held up at the wait on the
\* in-flight fence, which returns exactly when the fence is signaled, at the
\* acquire, and at the device_wait_idle that starts a recreation, which
\* returns exactly when both queues are empty; every other step can be taken
\* at once.
Inv_C22_BlockingCalls ==
    /\ NoWaitAfterAcquire
    /\ (pc = "idle" /\ ticks < MaxTicks) =>
           (ENABLED WaitForFences <=> in_flight_fence = "signaled")
    /\ (pc = "recreate" /\ builds < MaxBuilds) =>
           (ENABLED (\E n \in 1..MaxImages : RecreateSwapchain(n))
               <=> (graphics_queue = << >> /\ present_queue = << >>))

\* A tick has presented and has to recreate the swapchain while its
\* submission is still executing.
Wit_C22_RecreationWaitsForDevice ==
    /\ pc = "recreate"
    /\ tick.presents = 1
    /\ graphics_queue # << >>
    /\ builds < MaxBuilds

\* The tick has come to its end: it has returned, is in the recreation that
\* ends it, or has panicked.
TickOver == pc \in {"idle", "recreate", "panicked"}

\* What the tick has issued so far: the numbers of uniform updates, fence
\* resets, recordings, submissions and presents.
Issued == <<Len(tick.uniform_writes), tick.fence_resets, tick.records,
            tick.submits, tick.presents>>

\* C26: a tick that acquires an image issues, in this order, the fence wait,
\* the acquire, the update of the uniform slot, the fence reset, the reset
\* and recording of the command buffer, the submission (waiting on the
\* image-available semaphore, signalling the render-finished semaphore and
\* the fence) and the present of the acquired index (waiting on the
\* render-finished semaphore): each step finds exactly the earlier ones done,
\* and the tick ends with all of them done.
CE_C26_TickOrder ==
    /\ [](tick.fence_waits = 0 => tick.acquire = "none")
    /\ [](Acquired =>
             /\ tick.fence_waits = 1
             /\ pc = "update_uniform" => Issued = <<0, 0, 0, 0, 0>>
             /\ pc = "reset_fences" => Issued = <<1, 0, 0, 0, 0>>
             /\ pc = "record" => Issued = <<1, 1, 0, 0, 0>>
             /\ pc = "submit" => Issued = <<1, 1, 1, 0, 0>>
             /\ pc = "present" => Issued = <<1, 1, 1, 1, 0>>
             /\ TickOver => Issued = <<1, 1, 1, 1, 1>>)
    /\ [][(pc = "submit" /\ pc' # "submit") =>
             \E batch \in {graphics_queue'[Len(graphics_queue')]} :
                 /\ Len(graphics_queue') = Len(graphics_queue) + 1
                 /\ batch.tick = ticks
                 /\ batch.info.wait_semaphores = {"image_available_semaphore"}
                 /\ batch.info.signal_semaphores = {"render_finished_semaphore"}
                 /\ batch.info.fence = "in_flight_fence"
                 /\ batch.info.command_buffer = command_buffers[image_index + 1]]_vars
    /\ [][(pc = "present" /\ pc' # "present") =>
             \E request \in {present_queue'[Len(present_queue')]} :
                 /\ Len(present_queue') = Len(present_queue) + 1
                 /\ request.tick = ticks
                 /\ request.info.wait_semaphores = {"render_finished_semaphore"}
                 /\ request.info.swapchain = swapchain
                 /\ request.info.image_index = image_index]_vars

\* C27: a tick that acquires image index i records exactly one command
\* sequence, into command buffer i: begin render pass on framebuffer i with
\* the current extent as render area, bind pipeline, bind vertex buffer at
\* offset 0, bind index buffer as 16-bit indices, bind descriptor set i, one
\* indexed draw of the 36 indices, end render pass; a tick aborted at the
\* acquire records nothing.
CE_C27_OneRecordingPerTick ==
    /\ []((Acquired /\ TickOver) => tick.records = 1)
    /\ [](tick.acquire = "ERROR_OUT_OF_DATE_KHR" => tick.records = 0)
    /\ [][(tick'.records # tick.records /\ tick'.records # 0) =>
             /\ tick.records = 0 /\ tick'.records = 1 /\ Acquired
             /\ \A i \in DOMAIN command_buffer_state :
                    \E commands \in {command_buffer_state'[i]} :
                        IF i # image_index + 1
                        THEN commands = command_buffer_state[i]
                        ELSE /\ Len(commands) = 7
                             /\ commands[1] =
                                    [cmd |-> "begin_render_pass",
                                     render_pass |-> render_pass,
                                     framebuffer |-> framebuffers[i],
                                     render_area |-> swapchain_extent]
                             /\ commands[2] = [cmd |-> "bind_pipeline",
                                               pipeline |-> graphics_pipeline]
                             /\ commands[3].cmd = "bind_vertex_buffers"
                             /\ commands[3].offset = 0
                             /\ commands[4].cmd = "bind_index_buffer"
                             /\ commands[4].index_type = "UINT16"
                             /\ commands[5].cmd = "bind_descriptor_sets"
                             /\ commands[5].descriptor_set = descriptor_sets[i].handle
                             /\ commands[6] = [cmd |-> "draw_indexed",
                                               index_count |-> 36,
                                               instance_count |-> 1]
                             /\ commands[7] = [cmd |-> "end_render_pass"]]_vars

\* C28: a resize event sets the resize flag if and only if both reported
\* dimensions are positive (otherwise it leaves the flag as it is), and a tick
\* that starts with the flag set returns with the swapchain recreated,
\* whether its acquire succeeds, is suboptimal or is out-of-date.
Thm_C28_ResizeLeadsToRecreation ==
    /\ [][\A width, height \in 0..MaxDim :
             Resized(width, height) =>
                 framebuffer_resized' =
                     (framebuffer_resized \/ (width > 0 /\ height > 0))]_vars
    /\ [][(pc # "idle" /\ pc' = "idle" /\ tick.resized_at_start) =>
             /\ tick'.recreates = 1
             /\ tick'.acquire \in {"SUCCESS", "SUBOPTIMAL_KHR", "ERROR_OUT_OF_DATE_KHR"}
             /\ swapchain' # swapchain
             /\ swapchain' = Handle("swapchain", builds', 1)]_vars

\* A tick that started with the resize flag set met an out-of-date acquire
\* and has returned with the swapchain recreated.
Wit_C28_RecreatedAfterOutOfDateAcquire ==
    /\ pc = "idle"
    /\ tick.resized_at_start
    /\ tick.acquire = "ERROR_OUT_OF_DATE_KHR"
    /\ tick.recreates = 1

\* ----------------------------------------------- selection function claims
\* The entries of a list.
Entries(list) == {list[i] : i \in DOMAIN list}

\* C23: for a non-empty list of surface formats, choose_swap_surface_format
\* returns the first entry that is B8G8R8A8_SRGB with SRGB_NONLINEAR when the
\* list has one, and the first entry of the list otherwise; what it returns
\* is an entry of the list.
Inv_C23_FormatSelection ==
    (selection.fn = "choose_swap_surface_format" /\ selection.input # << >>) =>
        \A list \in {selection.input} :
            /\ selection.result.ok
            /\ selection.result.value \in Entries(list)
            /\ IF \E i \in DOMAIN list : /\ list[i].format = "B8G8R8A8_SRGB"
                                          /\ list[i].color_space = "SRGB_NONLINEAR"
               THEN /\ selection.result.value.format = "B8G8R8A8_SRGB"
                    /\ selection.result.value.color_space = "SRGB_NONLINEAR"
               ELSE selection.result.value = list[1]

\* The preferred format was chosen from a list that has it after an entry
\* of the same format and another color space.
Wit_C23_PreferredNotFirst ==
    /\ selection.fn = "choose_swap_surface_format"
    /\ Len(selection.input) = 3
    /\ selection.input[1] = [format |-> "B8G8R8A8_SRGB",
                             color_space |-> "EXTENDED_SRGB_LINEAR_EXT"]
    /\ selection.input[3] = [format |-> "B8G8R8A8_SRGB", color_space |-> "SRGB_NONLINEAR"]
    /\ selection.result = Returned(selection.input[3])

\* C24: choose_swap_present_mode returns MAILBOX when the list has it and
\* FIFO for every other list, the empty list and the lists without FIFO
\* included.
Inv_C24_PresentModeSelection ==
    selection.fn = "choose_swap_present_mode" =>
        /\ selection.result.ok
        /\ "MAILBOX" \in Entries(selection.input) => selection.result.value = "MAILBOX"
        /\ "MAILBOX" \notin Entries(selection.input) => selection.result.value = "FIFO"

\* FIFO was chosen from a non-empty list that has neither MAILBOX nor FIFO.
Wit_C24_FallbackNotListed ==
    /\ selection.fn = "choose_swap_present_mode"
    /\ selection.input = <<"IMMEDIATE", "FIFO_RELAXED">>
    /\ selection.result = Returned("FIFO")

\* A physical device has everything C25 lists: a family with GRAPHICS, a
\* family that can present, the swapchain extension, a surface format and a
\* present mode.
Qualifies(pdevice) ==
    /\ \E i \in DOMAIN pdevice.queue_families : pdevice.queue_families[i].graphics
    /\ \E i \in DOMAIN pdevice.queue_families : pdevice.queue_families[i].present
    /\ "VK_KHR_swapchain" \in pdevice.extensions
    /\ pdevice.formats # << >>
    /\ pdevice.present_modes # << >>

\* C25: pick_physical_device goes through the devices in enumeration order;
\* it goes on to the next one exactly after a device that lacks one of the
\* requirements, it returns exactly at a device that has them all, and it
\* panics only when the enumeration ends before any device had them all.
Thm_C25_FirstSuitableDevice ==
    /\ [](selection.fn = "pick_physical_device" =>
            /\ selection.status = "found" =>
                   Qualifies(selection.device) /\ selection.result.ok
            /\ selection.status = "searching" => ~Qualifies(selection.device)
            /\ selection.status = "panicked" => ~selection.result.ok)
    /\ [][(selection'.fn = "pick_physical_device" /\ selection'.status = "panicked") =>
            \/ NotCalled /\ selection'.examined = 0
            \/ /\ Searching
               /\ ~Qualifies(selection.device)
               /\ selection'.examined = selection.examined]_vars

\* The second device was returned, its graphics family and its present
\* family being two families.
Wit_C25_SecondDeviceReturned ==
    /\ selection.fn = "pick_physical_device"
    /\ selection.status = "found"
    /\ selection.examined = 2
    /\ selection.result.value.graphics_family # selection.result.value.present_family

\* C29: create_logical_device builds one queue-creation entry per distinct
\* family among the graphics and the present family: one entry when the two
\* are the same family, two entries, one for each, when they differ.
Inv_C29_OneEntryPerFamily ==
    (selection.fn = "create_logical_device" /\ selection.result.ok) =>
        \A infos \in {selection.result.value} :
            /\ Len(infos) = IF selection.input.graphics_family
                                  = selection.input.present_family THEN 1 ELSE 2
            /\ {Some(infos[i].queue_family_index) : i \in DOMAIN infos}
                   = {selection.input.graphics_family, selection.input.present_family}

\* One entry was built for a graphics family that is also the present
\* family.
Wit_C29_SharedFamily ==
    /\ selection.fn = "create_logical_device"
    /\ selection.input = [graphics_family |-> Some(1), present_family |-> Some(1)]
    /\ selection.result = Returned(<<queue_create_info(1)>>)

\* C30: choose_swap_extent returns current_extent when its width is not
\* u32::MAX; otherwise it returns the window's inner size with the width and
\* the height each brought into the range from min_image_extent to
\* max_image_extent, so both lie in that range.
Inv_C30_ExtentSelection ==
    selection.fn = "choose_swap_extent" =>
        \A current_extent \in {selection.input.current_extent},
           inner_size \in {selection.input.inner_size},
           extent \in {selection.result.value} :
            /\ current_extent.width # U32_MAX => extent = current_extent
            /\ current_extent.width = U32_MAX =>
                   /\ min_image_extent.width <= extent.width
                   /\ extent.width <= max_image_extent.width
                   /\ min_image_extent.height <= extent.height
                   /\ extent.height <= max_image_extent.height
                   /\ \A field \in {"width", "height"} :
                          \/ extent[field] = inner_size[field]
                          \/ /\ inner_size[field] < min_image_extent[field]
                             /\ extent[field] = min_image_extent[field]
                          \/ /\ inner_size[field] > max_image_extent[field]
                             /\ extent[field] = max_image_extent[field]

\* The extent was left to the application and the window was wider than the
\* surface allows.
Wit_C30_ClampedToMaximum ==
    /\ selection.fn = "choose_swap_extent"
    /\ selection.input.current_extent.width = U32_MAX
    /\ selection.input.inner_size.width > max_image_extent.width
    /\ selection.result.value.width = max_image_extent.width

\* C31: find_memory_type returns the lowest index below the memory-type
\* count whose bit is set in the type filter and whose property flags contain
\* all the desired flags; when no index qualifies it panics.
Inv_C31_MemoryTypeSelection ==
    selection.fn = "find_memory_type" =>
        \A qualifying \in
              {{i \in 0..(Len(selection.input.memory_types) - 1) :
                   /\ (selection.input.type_filter \div (2 ^ i)) % 2 = 1
                   /\ \A flag \in selection.input.properties :
                          flag \in selection.input.memory_types[i + 1]}} :
            IF qualifying = {} THEN ~selection.result.ok
            ELSE /\ selection.result.ok
                 /\ selection.result.value \in qualifying
                 /\ \A j \in qualifying : selection.result.value <= j

\* Index 0 has its bit set but lacks the desired flags, and index 1 is
\* returned.
Wit_C31_SecondTypeReturned ==
    /\ selection.fn = "find_memory_type"
    /\ selection.input.type_filter = 3
    /\ selection.input.properties = {"DEVICE_LOCAL"}
    /\ selection.result = Returned(1)

\* C32: find_depth_format returns the first of D32_SFLOAT,
\* D32_SFLOAT_S8_UINT, D24_UNORM_S8_UINT whose optimal-tiling features include
\* DEPTH_STENCIL_ATTACHMENT, and panics when none of the three qualifies; the
\* render pass and the depth image of a build get the same format.
Inv_C32_DepthFormatSelection ==
    selection.fn = "find_depth_format" =>
        \A supports \in
              {[f \in {"D32_SFLOAT", "D32_SFLOAT_S8_UINT", "D24_UNORM_S8_UINT"} |->
                   "DEPTH_STENCIL_ATTACHMENT"
                       \in selection.input[f].optimal_tiling_features]} :
            /\ selection.result =
                   IF supports["D32_SFLOAT"] THEN Returned("D32_SFLOAT")
                   ELSE IF supports["D32_SFLOAT_S8_UINT"]
                   THEN Returned("D32_SFLOAT_S8_UINT")
                   ELSE IF supports["D24_UNORM_S8_UINT"]
                   THEN Returned("D24_UNORM_S8_UINT")
                   ELSE Panicked
            /\ selection.render_pass_depth_format = selection.result
            /\ selection.depth_image_format = selection.result

\* The first candidate supports depth-stencil attachment use under linear
\* tiling only, the second not at all, and the third is returned.
Wit_C32_ThirdCandidateReturned ==
    /\ selection.fn = "find_depth_format"
    /\ selection.input["D32_SFLOAT"].linear_tiling_features
           = {"DEPTH_STENCIL_ATTACHMENT"}
    /\ selection.input["D32_SFLOAT"].optimal_tiling_features = {"SAMPLED_IMAGE"}
    /\ selection.result = Returned("D24_UNORM_S8_UINT")
    /\ selection.depth_image_format = Returned("D24_UNORM_S8_UINT")

\* ------------------------------------------------- static resource claims
\* C33: every tick and every recreation leave unchanged the instance, the
\* surface, the physical device, the device, both queues, the queue-family
\* indices, the command pool, the two semaphores, the fence, the
\* descriptor-set layout and the vertex and index buffers with their memory
\* and contents: until shutdown the fields hold what new() stored, the
\* objects have not been destroyed, and no step before shutdown changes any
\* of them.
Thm_C33_StaticFieldsUnchanged ==
    /\ [](pc # "destroyed" =>
             /\ held = held_by_new
             /\ device_fields = device_fields_by_new
             /\ static_data = static_data_by_new
             /\ \A gone \in {dangling \cup double_destroyed} :
                    \A field \in DOMAIN held : held[field] \notin gone)
    /\ [][pc' # "destroyed" =>
             /\ held' = held
             /\ device_fields' = device_fields
             /\ static_data' = static_data]_vars

\* Three ticks and two recreations have run.
Wit_C33_AfterTicksAndRecreations ==
    /\ pc = "idle"
    /\ ticks = 3
    /\ builds = 2
    /\ total.presents >= 1
    /\ held.vertex_buffer \in live

\* C34: after startup and after every recreation, the descriptor sets
\* allocated from the current descriptor pool are exactly the sets held, one
\* per swapchain image: the number of sets allocated from the pool equals the
\* number of swapchain images.
CE_C34_OneSetPerImage ==
    pc # "destroyed" =>
        /\ Len(descriptor_sets) = Len(swapchain_images)
        /\ descriptor_pool.allocated = Len(swapchain_images)
        /\ \A now_live \in {live} :
               {h \in now_live : /\ h[1] = "descriptor_set"
                                 /\ h[2] = descriptor_pool.handle[2]}
                   = {descriptor_sets[i].handle : i \in DOMAIN descriptor_sets}

CE_C36_CommandBufferPerImage ==
    /\ pc # "destroyed" => Len(command_buffers) = Len(swapchain_images)
    /\ (Acquired /\ pc \in {"update_uniform", "reset_fences", "record", "submit",
                             "present"}) =>
           /\ image_index < Len(command_buffers)
           /\ image_index < Len(framebuffers)
           /\ image_index < Len(descriptor_sets)
           /\ image_index < Len(uniform_buffers_memory)
    /\ panic_cause # "index_out_of_bounds"

\* -------------------------------------------------------- semaphore claims
\* C37: in issue order the signals and the waits of each semaphore
\* alternate, starting with a signal: a successful acquire (signal of
\* image-available) is issued only when every earlier one has its
\* submission, a submission (wait on image-available, signal of
\* render-finished) only after an acquire that has none yet and when every
\* earlier submission has its present, a present (wait on render-finished)
\* only after a submission that has none yet; an acquire that reports
\* out-of-date issues no signal and no wait.
Thm_C37_SemaphoresAlternate ==
    /\ [](/\ total.acquires - total.submits \in {0, 1}
          /\ total.submits - total.presents \in {0, 1})
    /\ [][total'.acquires # total.acquires =>
             /\ total.acquires = total.submits
             /\ total'.acquires = total.acquires + 1
             /\ Len(acquire_pending') = Len(acquire_pending) + 1
             /\ UNCHANGED <<graphics_queue, present_queue>>]_vars
    /\ [][total'.submits # total.submits =>
             /\ total.acquires = total.submits + 1
             /\ total.submits = total.presents
             /\ total'.submits = total.submits + 1
             /\ \E batch \in {graphics_queue'[Len(graphics_queue')]} :
                    /\ batch.info.wait_semaphores = {"image_available_semaphore"}
                    /\ batch.info.signal_semaphores = {"render_finished_semaphore"}
             /\ UNCHANGED <<acquire_pending, present_queue>>]_vars
    /\ [][total'.presents # total.presents =>
             /\ total.submits = total.presents + 1
             /\ total'.presents = total.presents + 1
             /\ \E request \in {present_queue'[Len(present_queue')]} :
                    request.info.wait_semaphores = {"render_finished_semaphore"}
             /\ UNCHANGED <<acquire_pending, graphics_queue>>]_vars
    /\ [][(tick.acquire = "none" /\ tick'.acquire = "ERROR_OUT_OF_DATE_KHR") =>
             UNCHANGED <<total, acquire_pending, graphics_queue, present_queue,
                         image_available_semaphore, render_finished_semaphore>>]_vars
    /\ [](tick.acquire = "ERROR_OUT_OF_DATE_KHR" => tick.submits = 0 /\ tick.presents = 0)

\* After a complete tick, a tick was aborted at an out-of-date acquire, and
\* the tick after it has acquired, submitted and presented.
Wit_C37_AlternationAcrossAbortedTick ==
    /\ pc = "idle"
    /\ ticks = 3
    /\ total.acquires = 2
    /\ total.presents = 2
    /\ builds >= 1

\* ------------------------------------------------------ liveness of handles
\* The handles that a recorded command sequence refers to.
HandlesOfCommands(commands) ==
    IF commands = << >> THEN {}
    ELSE {commands[1].render_pass, commands[1].framebuffer, commands[2].pipeline,
          commands[3].buffer, commands[4].buffer, commands[5].layout,
          commands[5].descriptor_set}

\* The handles that the next call of the thread passes to the device, at
\* each position of a tick.
TickReferences ==
    CASE pc = "idle" -> {held.in_flight_fence}
      [] pc = "acquire" -> {swapchain, held.image_available_semaphore}
      [] pc = "update_uniform" -> {uniform_buffers_memory[image_index + 1]}
      [] pc = "reset_fences" -> {held.in_flight_fence}
      [] pc = "record" ->
            IF image_index < Len(command_buffers)
            THEN {command_buffers[image_index + 1]}
                     \cup HandlesOfCommands(record_command_buffer(image_index))
            ELSE {}
      [] pc = "submit" ->
            {command_buffers[image_index + 1], held.image_available_semaphore,
             held.render_finished_semaphore, held.in_flight_fence}
                \cup HandlesOfCommands(command_buffer_state[image_index + 1])
      [] pc = "present" -> {swapchain, held.render_finished_semaphore}
      [] OTHER -> {}

\* The handles that the work queued on the device refers to: the command
\* buffer of each batch with what is recorded in it, the swapchain of each
\* present.
QueuedReferences ==
    UNION {{graphics_queue[k].info.command_buffer}
               \cup HandlesOfCommands(
                        command_buffer_state[graphics_queue[k].info.command_buffer[3]]) :
           k \in DOMAIN graphics_queue}
        \cup {present_queue[k].info.swapchain : k \in DOMAIN present_queue}

\* C38: from the end of startup until shutdown begins, every handle that a
\* tick passes to the device when it waits, acquires, writes uniform memory,
\* records, submits or presents, and every handle that the work it has
\* queued refers to, is live: none was destroyed by an earlier teardown.
Inv_C38_TickUsesLiveHandles ==
    pc # "destroyed" =>
        \A now_live \in {live} :
            /\ TickReferences \subseteq now_live
            /\ QueuedReferences \subseteq now_live

\* A tick after two recreations is about to submit commands that refer to
\* the handles of the second recreation.
Wit_C38_SubmitAfterRecreations ==
    /\ pc = "submit"
    /\ builds = 2
    /\ command_buffer_state[image_index + 1][1].render_pass = Handle("render_pass", 2, 2)
    /\ Handle("render_pass", 1, 2) \notin live

\* ------------------------------------------------------------ extent claims
\* C39: after startup and after every recreation, the extent chosen for the
\* current swapchain is the extent of the swapchain images, of every
\* framebuffer, of the depth image, of the viewport and the scissor of the
\* pipeline, of the render area that a tick records and of the aspect ratio
\* of the projection that a tick writes.
Thm_C39_OneExtent ==
    /\ [](pc # "destroyed" =>
             \A resource \in DOMAIN resource_extent :
                 resource_extent[resource] = swapchain_extent)
    /\ [][tick'.records = tick.records + 1 =>
             \E commands \in {command_buffer_state'[image_index + 1]} :
                 /\ commands[1].cmd = "begin_render_pass"
                 /\ commands[1].render_area = swapchain_extent
                 /\ commands[1].render_area = resource_extent.framebuffers]_vars
    /\ [][Len(tick'.uniform_writes) = Len(tick.uniform_writes) + 1 =>
             /\ tick'.aspect.numerator = swapchain_extent.width
             /\ tick'.aspect.denominator = swapchain_extent.height
             /\ swapchain_extent = resource_extent.viewport]_vars

\* After a recreation that changed the extent, a tick has written the
\* projection and recorded its commands with the new extent.
Wit_C39_TickWithNewExtent ==
    /\ pc = "submit"
    /\ builds >= 1
    /\ swapchain_extent # [width |-> WIDTH, height |-> HEIGHT]
    /\ tick.aspect = [numerator |-> swapchain_extent.width,
                      denominator |-> swapchain_extent.height]
    /\ command_buffer_state[image_index + 1][1].render_area = swapchain_extent

====
